---- MODULE Spec2Model ----
(***************************************************************************)
(* Model of the capability registries of playwright-ts-multipleusers:      *)
(* PageRegistry, ServiceRegistry, AppRegistry and MultiUserRegistry        *)
(* (src/registries) and of the fixtures that build them (src/fixtures).    *)
(*                                                                         *)
(* Objects live on a heap and are named by the number they were given when *)
(* they were constructed, so that "the identical instance" is equality of  *)
(* numbers and "a new instance" is a number never handed out before.       *)
(***************************************************************************)
EXTENDS Integers, Sequences, FiniteSets, TLC

(***************************************************************************)
(* Bounds of the model.                                                    *)
(***************************************************************************)
\* capability instances (page objects, helpers, services) one run may build
MaxInst == 2

\* asynchronous tasks one test body starts with Promise.all
MaxTasks == 2

\* hours that pass while globalSetup and a test run
MaxElapsed == 2

(***************************************************************************)
(* Values of the program.                                                  *)
(***************************************************************************)
\* the value `undefined`, and the absence of an object
Undefined == 0

\* the role labels of MultiUserRegistry and of the fixtures
Roles == {"user1", "user2", "user3"}

\* the branches of a Promise.all, in the order of the array; no task
Tasks == 1..MaxTasks
NoTask == 0

\* the fixtures of authenticatedMultiUserTest: browser, registry and, per
\* role, userNContext, userNPage, userNRegistry and the alias userN
BrowserFixture == <<"browser", "">>
CombinedFixture == <<"registry", "">>
UserFixture(kind, role) == <<kind, role>>
Fixtures ==
  {BrowserFixture, CombinedFixture}
  \cup ({"Context", "Page", "Registry", "Alias"} \X Roles)

\* the value of multi while no MultiUserRegistry has been built
NoMulti == [r \in Roles |-> Undefined]

\* a key no named getter uses, given by the caller in both namespaces
FreeKey == "custom"

\* keys used with getPage and isCached: the named getter's key and a free key
PageKeys == {"home", FreeKey}

\* keys of the named getters of ServiceRegistry
NamedServiceKeys == {"shadow", "waits", "assertions", "auth", "userApi"}

\* keys used with getService, setService and isCached: a named getter's key
\* and a free key
ServiceKeys == {"shadow", FreeKey}

\* factories a caller passes to getPage or getService: two that build a new
\* object, one that throws, and one that returns user1.pages.home
FreshFactories == {"f1", "f2"}
ThrowingFactory == "fThrow"
HomeFactory == "fHome"
ServiceFactories == FreshFactories \cup {ThrowingFactory}
PageFactories == ServiceFactories \cup {HomeFactory}

VARIABLES
  heap,      \* object number -> AppRegistry object
  multi,     \* the MultiUserRegistry object, or NoMulti before it is built
  nextObj,   \* number of the next page, context or registry object
  nextInst,  \* number of the next capability instance
  prev,      \* the call before the last one, when both were generic gets of one key (history)
  last,      \* the last completed call and what it returned (history)
  bound,     \* first instance a lookup returned per key since the last clear (history)
  rebound,   \* as bound, but setService(k, s) binds k to s (history)
  tpc,       \* asynchronous task of the test body -> where it is
  held,      \* task -> the instances it obtained since the last clear (history)
  browser,   \* the Browser of the worker: "none", "open" or "closed"
  ctxs,      \* object number -> BrowserContext object
  tabs,      \* object number -> Page object
  fx,        \* fixture -> the value it handed to use(), Undefined before that
  todo,      \* the fixtures still to set up for the test, in order
  stack,     \* the fixtures that are set up, in the order they were set up
  phase,     \* "setup", "body", "teardown" or "end" of the test
  files,     \* role -> the stored state playwright/.auth/userN.json
  now,       \* the clock, in hours
  gs,        \* globalSetup: where it is and what authenticateUser did last
  wait,      \* the load of the page under test and the last wait on it
  userFactory, \* UserFactory.counter, the clock in milliseconds and the emails generated
  util       \* the last call of a utility (assertAll, retryUntilSuccess) and its outcome

fixtureVars == <<browser, ctxs, tabs, fx, todo, stack, phase>>

setupVars == <<files, now, gs>>

utilVars == <<userFactory, util>>

vars == <<heap, multi, nextObj, nextInst, prev, last, bound, rebound, tpc, held,
          browser, ctxs, tabs, fx, todo, stack, phase, files, now, gs, wait, utilVars>>

(***************************************************************************)
(* Map<string, any>: entries in insertion order.                           *)
(***************************************************************************)
MapHas(m, k) == \E i \in 1..Len(m) : m[i].key = k

MapGet(m, k) ==
  IF MapHas(m, k)
  THEN m[CHOOSE i \in 1..Len(m) : m[i].key = k].val
  ELSE Undefined

\* MapSet that rebuilds the map around the entry it writes
MapSet_Evicting(m, k, v) == <<[key |-> k, val |-> v]>>

MapSet(m, k, v) ==
  IF MapHas(m, k)
  THEN [i \in 1..Len(m) |-> IF m[i].key = k THEN [key |-> k, val |-> v] ELSE m[i]]
  ELSE Append(m, [key |-> k, val |-> v])

MapClear(m) == << >>

MapKeys(m) == [i \in 1..Len(m) |-> m[i].key]

\* the set of keys of a map, for the formulas
KeySet(m) == {m[i].key : i \in 1..Len(m)}

(***************************************************************************)
(* What a call on a registry does: the registry object after the call, the *)
(* value returned (Undefined when it threw), the factories it invoked in   *)
(* order, whether it found the key cached on entry (for a clear: whether   *)
(* anything was cached), and the number of the next capability instance.   *)
(***************************************************************************)
Returned(self, ret, hit, invoked, n) ==
  [self |-> self, ret |-> ret, threw |-> FALSE, hit |-> hit, invoked |-> invoked, n |-> n]

Thrown(self, invoked, n) ==
  [self |-> self, ret |-> Undefined, threw |-> TRUE, hit |-> FALSE, invoked |-> invoked, n |-> n]

(***************************************************************************)
(* PageRegistry                                                            *)
(***************************************************************************)
createPageRegistry(page) == [page |-> page, cache |-> << >>]

\* get home() without the has('home') test
PageRegistry_home_Rebuild(self, n) ==
  LET s1 == [self EXCEPT !.cache = MapSet(@, "home", n)]
  IN  Returned(s1, MapGet(s1.cache, "home"), FALSE, <<"HomePage">>, n + 1)

\* get home(): new HomePage(this.page) is the next fresh instance
PageRegistry_home(self, n) ==
  LET hit == MapHas(self.cache, "home")
      s1  == IF ~hit THEN [self EXCEPT !.cache = MapSet(@, "home", n)] ELSE self
  IN  Returned(s1, MapGet(s1.cache, "home"), hit,
               IF hit THEN << >> ELSE <<"HomePage">>,
               IF hit THEN n ELSE n + 1)

\* factory(): what the factory passed to getPage does when it is invoked
CallPageFactory(factory, self, n) ==
  CASE factory \in FreshFactories -> Returned(self, n, FALSE, <<factory>>, n + 1)
    [] factory = ThrowingFactory  -> Thrown(self, <<factory>>, n)
    [] factory = HomeFactory      ->
         LET h == PageRegistry_home(self, n)
         IN  Returned(h.self, h.ret, FALSE, <<factory>> \o h.invoked, h.n)

\* getPage without the has(key) test
PageRegistry_getPage_NoCheck(self, key, factory, n) ==
  LET c == CallPageFactory(factory, self, n)
  IN  IF c.threw
      THEN Thrown(c.self, c.invoked, c.n)
      ELSE LET s1 == [c.self EXCEPT !.cache = MapSet(@, key, c.ret)]
           IN  Returned(s1, MapGet(s1.cache, key), FALSE, c.invoked, c.n)

PageRegistry_getPage(self, key, factory, n) ==
  IF ~MapHas(self.cache, key)
  THEN LET c == CallPageFactory(factory, self, n)
       IN  IF c.threw
           THEN Thrown(c.self, c.invoked, c.n)
           ELSE LET s1 == [c.self EXCEPT !.cache = MapSet(@, key, c.ret)]
                IN  Returned(s1, MapGet(s1.cache, key), FALSE, c.invoked, c.n)
  ELSE Returned(self, MapGet(self.cache, key), TRUE, << >>, n)

\* clearCache that clears nothing
PageRegistry_clearCache_Keep(self) == self

PageRegistry_clearCache(self) == [self EXCEPT !.cache = MapClear(@)]

PageRegistry_getCachedPages(self) == MapKeys(self.cache)

PageRegistry_isCached(self, key) == MapHas(self.cache, key)

(***************************************************************************)
(* ServiceRegistry                                                         *)
(***************************************************************************)
createServiceRegistry(page) == [page |-> page, cache |-> << >>]

\* a named getter without the has(key) test
NamedGetter_Rebuild(self, key, ctor, n) ==
  LET s1 == [self EXCEPT !.cache = MapSet(@, key, n)]
  IN  Returned(s1, MapGet(s1.cache, key), FALSE, <<ctor>>, n + 1)

\* the body shared by the five named getters, each with its own key and
\* its own constructor
NamedGetter(self, key, ctor, n) ==
  LET hit == MapHas(self.cache, key)
      s1  == IF ~hit THEN [self EXCEPT !.cache = MapSet(@, key, n)] ELSE self
  IN  Returned(s1, MapGet(s1.cache, key), hit,
               IF hit THEN << >> ELSE <<ctor>>,
               IF hit THEN n ELSE n + 1)

ServiceRegistry_shadow(self, n) == NamedGetter(self, "shadow", "createShadowHelper", n)

ServiceRegistry_waits(self, n) == NamedGetter(self, "waits", "createWaitHelpers", n)

ServiceRegistry_assertions(self, n) == NamedGetter(self, "assertions", "createAssertions", n)

ServiceRegistry_auth(self, n) == NamedGetter(self, "auth", "createMicrosoftAuthHelper", n)

ServiceRegistry_userApi(self, n) == NamedGetter(self, "userApi", "UserApiClient", n)

\* factory(): what the factory passed to getService does when it is invoked
CallServiceFactory(factory, self, n) ==
  CASE factory \in FreshFactories -> Returned(self, n, FALSE, <<factory>>, n + 1)
    [] factory = ThrowingFactory  -> Thrown(self, <<factory>>, n)

\* getService without the has(key) test
ServiceRegistry_getService_NoCheck(self, key, factory, n) ==
  LET c == CallServiceFactory(factory, self, n)
  IN  IF c.threw
      THEN Thrown(c.self, c.invoked, c.n)
      ELSE LET s1 == [c.self EXCEPT !.cache = MapSet(@, key, c.ret)]
           IN  Returned(s1, MapGet(s1.cache, key), FALSE, c.invoked, c.n)

\* getService that reserves the key before it calls the factory
ServiceRegistry_getService_Reserve(self, key, factory, n) ==
  IF ~MapHas(self.cache, key)
  THEN LET s0 == [self EXCEPT !.cache = MapSet(@, key, Undefined)]
           c  == CallServiceFactory(factory, s0, n)
       IN  IF c.threw
           THEN Thrown(c.self, c.invoked, c.n)
           ELSE LET s1 == [c.self EXCEPT !.cache = MapSet(@, key, c.ret)]
                IN  Returned(s1, MapGet(s1.cache, key), FALSE, c.invoked, c.n)
  ELSE Returned(self, MapGet(self.cache, key), TRUE, << >>, n)

ServiceRegistry_getService(self, key, factory, n) ==
  IF ~MapHas(self.cache, key)
  THEN LET c == CallServiceFactory(factory, self, n)
       IN  IF c.threw
           THEN Thrown(c.self, c.invoked, c.n)
           ELSE LET s1 == [c.self EXCEPT !.cache = MapSet(@, key, c.ret)]
                IN  Returned(s1, MapGet(s1.cache, key), FALSE, c.invoked, c.n)
  ELSE Returned(self, MapGet(self.cache, key), TRUE, << >>, n)

ServiceRegistry_setService(self, key, service) ==
  [self EXCEPT !.cache = MapSet(@, key, service)]

ServiceRegistry_clearCache(self) == [self EXCEPT !.cache = MapClear(@)]

ServiceRegistry_getCachedServices(self) == MapKeys(self.cache)

ServiceRegistry_isCached(self, key) == MapHas(self.cache, key)

(***************************************************************************)
(* AppRegistry                                                             *)
(***************************************************************************)
createAppRegistry(page) ==
  [page     |-> page,
   pages    |-> createPageRegistry(page),
   services |-> createServiceRegistry(page)]

AppRegistry_getPage(self) == self.page

\* clearAll that forgets the services
AppRegistry_clearAll_PagesOnly(self) ==
  [self EXCEPT !.pages = PageRegistry_clearCache(@)]

AppRegistry_clearAll(self) ==
  [self EXCEPT !.pages    = PageRegistry_clearCache(@),
               !.services = ServiceRegistry_clearCache(@)]

\* getCacheStats that leaves the services out
AppRegistry_getCacheStats_PagesOnly(self) ==
  LET pages == PageRegistry_getCachedPages(self.pages)
  IN  [pages |-> pages, services |-> << >>, total |-> Len(pages)]

AppRegistry_getCacheStats(self) ==
  LET pages    == PageRegistry_getCachedPages(self.pages)
      services == ServiceRegistry_getCachedServices(self.services)
  IN  [pages |-> pages, services |-> services, total |-> Len(pages) + Len(services)]

(***************************************************************************)
(* MultiUserRegistry                                                       *)
(***************************************************************************)
\* constructor: three AppRegistry objects are built and put on the heap
\* a constructor that hands the registry of the first user to the second as well
createMultiUserRegistry_SharedMember(user1Page, user2Page, user3Page, h, n) ==
  [self |-> [user1 |-> n, user2 |-> n, user3 |-> n + 2],
   heap |-> h @@ (n     :> createAppRegistry(user1Page))
              @@ (n + 1 :> createAppRegistry(user2Page))
              @@ (n + 2 :> createAppRegistry(user3Page)),
   n    |-> n + 3]

createMultiUserRegistry(user1Page, user2Page, user3Page, h, n) ==
  [self |-> [user1 |-> n, user2 |-> n + 1, user3 |-> n + 2],
   heap |-> h @@ (n     :> createAppRegistry(user1Page))
              @@ (n + 1 :> createAppRegistry(user2Page))
              @@ (n + 2 :> createAppRegistry(user3Page)),
   n    |-> n + 3]

\* clearAll that forgets the third user
MultiUserRegistry_clearAll_TwoUsers(self, h) ==
  LET h1 == [h  EXCEPT ![self.user1] = AppRegistry_clearAll(@)]
      h2 == [h1 EXCEPT ![self.user2] = AppRegistry_clearAll(@)]
  IN  h2

MultiUserRegistry_clearAll(self, h) ==
  LET h1 == [h  EXCEPT ![self.user1] = AppRegistry_clearAll(@)]
      h2 == [h1 EXCEPT ![self.user2] = AppRegistry_clearAll(@)]
      h3 == [h2 EXCEPT ![self.user3] = AppRegistry_clearAll(@)]
  IN  h3

\* getCacheStats that reports the first user's cache for the second user
MultiUserRegistry_getCacheStats_Copied(self, h) ==
  [user1 |-> AppRegistry_getCacheStats(h[self.user1]),
   user2 |-> AppRegistry_getCacheStats(h[self.user1]),
   user3 |-> AppRegistry_getCacheStats(h[self.user3])]

MultiUserRegistry_getCacheStats(self, h) ==
  [user1 |-> AppRegistry_getCacheStats(h[self.user1]),
   user2 |-> AppRegistry_getCacheStats(h[self.user2]),
   user3 |-> AppRegistry_getCacheStats(h[self.user3])]

(***************************************************************************)
(* History kept for the properties: the last two calls, and which instance *)
(* each key was bound to.                                                  *)
(***************************************************************************)
NoCall ==
  [op |-> "none", target |-> Undefined, ns |-> "", key |-> "", factory |-> "",
   hit |-> FALSE, invoked |-> << >>, threw |-> FALSE, ret |-> Undefined]

\* the value of gs.run before authenticateUser has run
NoRun ==
  [role |-> "", reused |-> FALSE, visible |-> FALSE, events |-> << >>,
   wrote |-> FALSE, threw |-> FALSE, error |-> "",
   before |-> [exists |-> FALSE, mtime |-> 0], at |-> 0]

CallRec(op, a, ns, key, factory, hit, invoked, threw, ret) ==
  [op |-> op, target |-> a, ns |-> ns, key |-> key, factory |-> factory,
   hit |-> hit, invoked |-> invoked, threw |-> threw, ret |-> ret]

Range(f) == {f[i] : i \in DOMAIN f}

Namespaces == {"pages", "services"}

IsBound(b, a, ns, k) == \E t \in b : t[1] = a /\ t[2] = ns /\ t[3] = k

BoundTo(b, a, ns, k) == (CHOOSE t \in b : t[1] = a /\ t[2] = ns /\ t[3] = k)[4]

\* the lookups a get or getter call made and what each returned
LookupsOf(ns, key, o) ==
  (IF o.threw THEN {} ELSE {<<ns, key, o.ret>>})
  \cup (IF HomeFactory \in Range(o.invoked)
        THEN {<<"pages", "home", MapGet(o.self.cache, "home")>>} ELSE {})

Bind(b, a, L) ==
  b \cup {<<a, t[1], t[2], t[3]>> : t \in {u \in L : ~IsBound(b, a, u[1], u[2])}}

Rebind(b, a, ns, k, v) ==
  {t \in b : ~(t[1] = a /\ t[2] = ns /\ t[3] = k)} \cup {<<a, ns, k, v>>}

Unbind(b, as, nss) == {t \in b : ~(t[1] \in as /\ t[2] \in nss)}

\* prev after the call op on key of registry a: the call that was last, when
\* it was the same generic get (getPage or getService) of the same key
Shift(op, a, key) ==
  IF op \in {"getPage", "getService"} /\ last.op = op /\ last.target = a /\ last.key = key
  THEN last ELSE NoCall

\* the task that is executing: JavaScript runs one at a time, each until
\* its next await
RunningTask ==
  IF \E t \in DOMAIN tpc : tpc[t] = "running"
  THEN CHOOSE t \in DOMAIN tpc : tpc[t] = "running"
  ELSE NoTask

\* held after the running task (if any) has made the lookups L on registry a
Obtain(h, a, L) ==
  IF RunningTask = NoTask THEN h
  ELSE [h EXCEPT ![RunningTask] =
          {x \in @ : ~\E u \in L : x[1] = a /\ x[2] = u[1] /\ x[3] = u[2]}
          \cup {<<a, u[1], u[2], u[3]>> : u \in L}]

\* held after the namespaces nss of the registries as were cleared
Release(h, as, nss) == [t \in DOMAIN h |-> Unbind(h[t], as, nss)]

\* the variables no registry call touches
OtherUnchanged == UNCHANGED <<multi, nextObj, tpc, fixtureVars, setupVars, wait, utilVars>>

\* a get or getter call on the PageRegistry or ServiceRegistry of registry a
Lookup(a, sub, op, key, factory, o) ==
  /\ o.n <= MaxInst + 1
  /\ heap' = [heap EXCEPT ![a][sub] = o.self]
  /\ nextInst' = o.n
  /\ prev' = Shift(op, a, key)
  /\ last' = CallRec(op, a, sub, key, factory, o.hit, o.invoked, o.threw, o.ret)
  /\ bound' = Bind(bound, a, LookupsOf(sub, key, o))
  /\ rebound' = Bind(rebound, a, LookupsOf(sub, key, o))
  /\ held' = Obtain(held, a, LookupsOf(sub, key, o))
  /\ OtherUnchanged

\* a call that only reads
ReadOnly(a, op, ns, key, ret) ==
  /\ prev' = NoCall
  /\ last' = CallRec(op, a, ns, key, "", FALSE, << >>, FALSE, ret)
  /\ UNCHANGED <<heap, nextInst, bound, rebound, held>>
  /\ OtherUnchanged

(***************************************************************************)
(* The calls a test body makes on one AppRegistry a.                       *)
(***************************************************************************)
Home(a) ==
  Lookup(a, "pages", "home", "home", "", PageRegistry_home(heap[a].pages, nextInst))

GetPage(a, key, factory) ==
  Lookup(a, "pages", "getPage", key, factory,
         PageRegistry_getPage(heap[a].pages, key, factory, nextInst))

Shadow(a) ==
  Lookup(a, "services", "shadow", "shadow", "",
         ServiceRegistry_shadow(heap[a].services, nextInst))

Waits(a) ==
  Lookup(a, "services", "waits", "waits", "",
         ServiceRegistry_waits(heap[a].services, nextInst))

Assertions(a) ==
  Lookup(a, "services", "assertions", "assertions", "",
         ServiceRegistry_assertions(heap[a].services, nextInst))

Auth(a) ==
  Lookup(a, "services", "auth", "auth", "",
         ServiceRegistry_auth(heap[a].services, nextInst))

UserApi(a) ==
  Lookup(a, "services", "userApi", "userApi", "",
         ServiceRegistry_userApi(heap[a].services, nextInst))

GetService(a, key, factory) ==
  Lookup(a, "services", "getService", key, factory,
         ServiceRegistry_getService(heap[a].services, key, factory, nextInst))

\* setService(key, service): service is a new object or one that this
\* ServiceRegistry caches already
SetService(a, key, service) ==
  /\ service \in {nextInst} \cup {e.val : e \in Range(heap[a].services.cache)}
  /\ service <= MaxInst
  /\ heap' = [heap EXCEPT ![a].services = ServiceRegistry_setService(@, key, service)]
  /\ nextInst' = IF service = nextInst THEN nextInst + 1 ELSE nextInst
  /\ prev' = NoCall
  /\ last' = CallRec("setService", a, "services", key, "",
                     MapHas(heap[a].services.cache, key), << >>, FALSE, service)
  /\ bound' = bound
  /\ rebound' = Rebind(rebound, a, "services", key, service)
  /\ UNCHANGED held
  /\ OtherUnchanged

\* pages.clearCache() on a registry whose two caches are one map
PagesClearCache_SharedMap(a) ==
  /\ heap' = [heap EXCEPT ![a].pages = PageRegistry_clearCache(@),
                          ![a].services = ServiceRegistry_clearCache(@)]
  /\ prev' = NoCall
  /\ last' = CallRec("pages.clearCache", a, "pages", "", "",
                     heap[a].pages.cache # << >>, << >>, FALSE, Undefined)
  /\ bound' = Unbind(bound, {a}, {"pages"})
  /\ rebound' = Unbind(rebound, {a}, {"pages"})
  /\ held' = Release(held, {a}, {"pages"})
  /\ UNCHANGED nextInst
  /\ OtherUnchanged

PagesClearCache(a) ==
  /\ heap' = [heap EXCEPT ![a].pages = PageRegistry_clearCache(@)]
  /\ prev' = NoCall
  /\ last' = CallRec("pages.clearCache", a, "pages", "", "",
                     heap[a].pages.cache # << >>, << >>, FALSE, Undefined)
  /\ bound' = Unbind(bound, {a}, {"pages"})
  /\ rebound' = Unbind(rebound, {a}, {"pages"})
  /\ held' = Release(held, {a}, {"pages"})
  /\ UNCHANGED nextInst
  /\ OtherUnchanged

ServicesClearCache(a) ==
  /\ heap' = [heap EXCEPT ![a].services = ServiceRegistry_clearCache(@)]
  /\ prev' = NoCall
  /\ last' = CallRec("services.clearCache", a, "services", "", "",
                     heap[a].services.cache # << >>, << >>, FALSE, Undefined)
  /\ bound' = Unbind(bound, {a}, {"services"})
  /\ rebound' = Unbind(rebound, {a}, {"services"})
  /\ held' = Release(held, {a}, {"services"})
  /\ UNCHANGED nextInst
  /\ OtherUnchanged

\* clearAll that clears every registry there is
ClearAllCall_Everywhere(a) ==
  /\ heap' = [b \in DOMAIN heap |-> AppRegistry_clearAll(heap[b])]
  /\ prev' = NoCall
  /\ last' = CallRec("clearAll", a, "", "", "",
                     AppRegistry_getCacheStats(heap[a]).total > 0, << >>, FALSE, Undefined)
  /\ bound' = Unbind(bound, {a}, {"pages", "services"})
  /\ rebound' = Unbind(rebound, {a}, {"pages", "services"})
  /\ held' = Release(held, {a}, {"pages", "services"})
  /\ UNCHANGED nextInst

\* registry.clearAll(), wherever it is called
ClearAllCall(a) ==
  /\ heap' = [heap EXCEPT ![a] = AppRegistry_clearAll(@)]
  /\ prev' = NoCall
  /\ last' = CallRec("clearAll", a, "", "", "",
                     AppRegistry_getCacheStats(heap[a]).total > 0, << >>, FALSE, Undefined)
  /\ bound' = Unbind(bound, {a}, {"pages", "services"})
  /\ rebound' = Unbind(rebound, {a}, {"pages", "services"})
  /\ held' = Release(held, {a}, {"pages", "services"})
  /\ UNCHANGED nextInst

ClearAll(a) ==
  /\ ClearAllCall(a)
  /\ OtherUnchanged

PagesIsCached(a, key) ==
  ReadOnly(a, "pages.isCached", "pages", key, PageRegistry_isCached(heap[a].pages, key))

ServicesIsCached(a, key) ==
  ReadOnly(a, "services.isCached", "services", key,
           ServiceRegistry_isCached(heap[a].services, key))

GetCacheStats(a) ==
  ReadOnly(a, "getCacheStats", "", "", AppRegistry_getCacheStats(heap[a]))

AppGetPage(a) ==
  ReadOnly(a, "getPage()", "", "", AppRegistry_getPage(heap[a]))

(***************************************************************************)
(* One AppRegistry over one page, as createAppRegistry(page) leaves it,    *)
(* used by a test body directly.                                           *)
(***************************************************************************)
\* globalSetup is over and has just written the stored state of every role
\* UserFactory as the module leaves it: private static counter = 0
NoEmails == [counter |-> 0, ms |-> 0, emails |-> << >>]

\* no utility has been called
NoUtil == [op |-> "none"]

\* no page is loading and nothing has waited
NoWait ==
  [load |-> [dom |-> 0, idle |-> 0], op |-> "none", from |-> 0, timeout |-> 0,
   threw |-> FALSE, error |-> "", timedOut |-> {}, at |-> 0]

AfterGlobalSetup ==
  /\ files = [role \in Roles |-> [exists |-> TRUE, mtime |-> 0]]
  /\ now = 0
  /\ gs = [status |-> "done", next |-> 4, run |-> NoRun]

NoFixtures ==
  /\ AfterGlobalSetup
  /\ wait = NoWait
  /\ userFactory = NoEmails
  /\ util = NoUtil
  /\ browser = "none"
  /\ ctxs = << >>
  /\ tabs = << >>
  /\ fx = [f \in Fixtures |-> Undefined]
  /\ todo = << >>
  /\ stack = << >>
  /\ phase = "body"

Init ==
  /\ heap = (2 :> createAppRegistry(1))
  /\ multi = NoMulti
  /\ nextObj = 3
  /\ nextInst = 1
  /\ prev = NoCall
  /\ last = NoCall
  /\ bound = {}
  /\ rebound = {}
  /\ tpc = << >>
  /\ held = << >>
  /\ NoFixtures

Next ==
  \/ \E a \in DOMAIN heap : Home(a)
  \/ \E a \in DOMAIN heap, k \in PageKeys, f \in PageFactories : GetPage(a, k, f)
  \/ \E a \in DOMAIN heap : Shadow(a)
  \/ \E a \in DOMAIN heap, k \in ServiceKeys, f \in ServiceFactories : GetService(a, k, f)
  \/ \E a \in DOMAIN heap, k \in ServiceKeys, s \in 1..MaxInst : SetService(a, k, s)
  \/ \E a \in DOMAIN heap : PagesClearCache(a)
  \/ \E a \in DOMAIN heap : ServicesClearCache(a)
  \/ \E a \in DOMAIN heap : ClearAll(a)
  \/ \E a \in DOMAIN heap, k \in PageKeys : PagesIsCached(a, k)
  \/ \E a \in DOMAIN heap, k \in ServiceKeys : ServicesIsCached(a, k)
  \/ \E a \in DOMAIN heap : GetCacheStats(a)
  \/ \E a \in DOMAIN heap : AppGetPage(a)

Spec == Init /\ [][Next]_vars

(***************************************************************************)
(* A MultiUserRegistry over three pages, as                                *)
(* createMultiUserRegistry(user1Page, user2Page, user3Page) leaves it, and *)
(* the calls a test body makes on it and on its members.                   *)
(***************************************************************************)
Members(m) == {m[r] : r \in Roles}

\* registry.clearAll() of the combined registry, wherever it is called
MultiClearAllCall ==
  /\ heap' = MultiUserRegistry_clearAll(multi, heap)
  /\ prev' = NoCall
  /\ last' = CallRec("multi.clearAll", Undefined, "", "", "",
                     \E a \in Members(multi) : AppRegistry_getCacheStats(heap[a]).total > 0,
                     << >>, FALSE,
                     {r \in Roles : AppRegistry_getCacheStats(heap[multi[r]]).total > 0})
  /\ bound' = Unbind(bound, Members(multi), Namespaces)
  /\ rebound' = Unbind(rebound, Members(multi), Namespaces)
  /\ held' = Release(held, Members(multi), Namespaces)
  /\ UNCHANGED nextInst

MultiClearAll ==
  /\ multi # NoMulti
  /\ MultiClearAllCall
  /\ OtherUnchanged

MultiGetCacheStats ==
  /\ multi # NoMulti
  /\ ReadOnly(Undefined, "multi.getCacheStats", "", "",
              MultiUserRegistry_getCacheStats(multi, heap))

InitMulti ==
  LET m == createMultiUserRegistry(1, 2, 3, << >>, 4)
  IN  /\ heap = m.heap
      /\ multi = m.self
      /\ nextObj = m.n
      /\ nextInst = 1
      /\ prev = NoCall
      /\ last = NoCall
      /\ bound = {}
      /\ rebound = {}
      /\ tpc = << >>
      /\ held = << >>
      /\ NoFixtures

\* each member is used through a named getter of either namespace, a generic
\* get and setService of the free key, and its own clearAll and getCacheStats
NextMulti ==
  \/ \E a \in Members(multi) : Home(a)
  \/ \E a \in Members(multi) : Shadow(a)
  \/ \E a \in Members(multi), f \in ServiceFactories : GetService(a, FreeKey, f)
  \/ \E a \in Members(multi), s \in 1..MaxInst : SetService(a, FreeKey, s)
  \/ \E a \in Members(multi) : ClearAll(a)
  \/ \E a \in Members(multi) : GetCacheStats(a)
  \/ MultiClearAll
  \/ MultiGetCacheStats

SpecMulti == InitMulti /\ [][NextMulti]_vars

(***************************************************************************)
(* Asynchronous tasks of one test on one registry: the branches of          *)
(*   await Promise.all([(async () => {...})(), (async () => {...})()])      *)
(* Each async function is called while the array is built, in the order of  *)
(* the array, and runs until its first await; after that the continuation   *)
(* of whichever awaited browser operation settles next runs, one at a time, *)
(* each until its next await or its return.  A call on a registry and the   *)
(* factory it invokes are synchronous: they contain no await.               *)
(***************************************************************************)
\* the task is called, or the operation it awaits settles and its
\* continuation runs
TaskRun(t) ==
  /\ RunningTask = NoTask
  /\ \/ /\ tpc[t] = "start"
        /\ \A u \in DOMAIN tpc : u < t => tpc[u] # "start"
     \/ /\ tpc[t] = "awaiting"
        /\ \A u \in DOMAIN tpc : tpc[u] # "start"
  /\ tpc' = [tpc EXCEPT ![t] = "running"]
  /\ UNCHANGED <<heap, multi, nextObj, nextInst, prev, last, bound, rebound, held>>
  /\ UNCHANGED <<fixtureVars, setupVars, wait, utilVars>>

\* the task reaches an await of a browser operation (header.getUserName())
TaskAwait(t) ==
  /\ tpc[t] = "running"
  /\ tpc' = [tpc EXCEPT ![t] = "awaiting"]
  /\ UNCHANGED <<heap, multi, nextObj, nextInst, prev, last, bound, rebound, held>>
  /\ UNCHANGED <<fixtureVars, setupVars, wait, utilVars>>

\* the async function returns
TaskReturn(t) ==
  /\ tpc[t] = "running"
  /\ tpc' = [tpc EXCEPT ![t] = "done"]
  /\ UNCHANGED <<heap, multi, nextObj, nextInst, prev, last, bound, rebound, held>>
  /\ UNCHANGED <<fixtureVars, setupVars, wait, utilVars>>

InitTasks ==
  /\ heap = (2 :> createAppRegistry(1))
  /\ multi = NoMulti
  /\ nextObj = 3
  /\ nextInst = 1
  /\ prev = NoCall
  /\ last = NoCall
  /\ bound = {}
  /\ rebound = {}
  /\ tpc = [t \in Tasks |-> "start"]
  /\ held = [t \in Tasks |-> {}]
  /\ NoFixtures

\* the calls are made by the task that is running
NextTasks ==
  \/ \E t \in Tasks : TaskRun(t)
  \/ \E t \in Tasks : TaskAwait(t)
  \/ \E t \in Tasks : TaskReturn(t)
  \/ \E a \in DOMAIN heap : RunningTask # NoTask /\ Home(a)
  \/ \E a \in DOMAIN heap, key \in PageKeys, factory \in PageFactories :
       RunningTask # NoTask /\ GetPage(a, key, factory)
  \/ \E a \in DOMAIN heap : RunningTask # NoTask /\ ClearAll(a)

SpecTasks == InitTasks /\ [][NextTasks]_vars

(***************************************************************************)
(* MicrosoftSSOHelper.  What the identity provider shows to a page is the   *)
(* input: whether the login page appears, which of the email and password  *)
(* selectors are visible, whether a Next and a Sign-in button can be        *)
(* clicked, what the "Stay signed in?" prompt does, and whether the page    *)
(* leaves the identity-provider domain in the end.  Each method yields      *)
(* whether it threw, the error, and the actions it performed on the page.   *)
(***************************************************************************)
\* emailSelectors and passwordSelectors have four entries each
EmailSelectors == 4
PasswordSelectors == 4

StayPrompts == {"absent", "yes", "yesAndNo", "error"}

IdpBehaviours ==
  [loginPage : BOOLEAN, email : SUBSET (1..EmailSelectors), next : BOOLEAN,
   password : SUBSET (1..PasswordSelectors), signIn : BOOLEAN,
   stay : StayPrompts, leftIdp : BOOLEAN]

\* an identity provider that shows every step, and no identity provider
GoodIdp ==
  [loginPage |-> TRUE, email |-> {1, 2}, next |-> TRUE, password |-> {1},
   signIn |-> TRUE, stay |-> "yesAndNo", leftIdp |-> TRUE]
NoIdp ==
  [loginPage |-> FALSE, email |-> {}, next |-> FALSE, password |-> {},
   signIn |-> FALSE, stay |-> "absent", leftIdp |-> FALSE]

Done(events) == [threw |-> FALSE, error |-> "", events |-> events]
Failed(error, events) == [threw |-> TRUE, error |-> error, events |-> events]

\* await first; await second: second runs only if first did not throw
AndThen(first, second) ==
  IF first.threw THEN first
  ELSE [threw |-> second.threw, error |-> second.error,
        events |-> first.events \o second.events]

waitForLoginPage(idp) ==
  IF idp.loginPage THEN Done(<< >>)
  ELSE Failed("waitForSelector: Timeout", << >>)

clickNext(idp) ==
  IF idp.next THEN Done(<<"click Next">>)
  ELSE Failed("Could not find \"Next\" button", << >>)

\* for (const selector of emailSelectors): try { if visible: fill; clickNext;
\* return } catch { continue }; after the loop: throw
RECURSIVE enterEmailFrom(_, _, _)
enterEmailFrom(i, idp, events) ==
  IF i > EmailSelectors
  THEN Failed("Could not find email input field", events)
  ELSE IF i \in idp.email
       THEN LET c == clickNext(idp)
            IN  IF c.threw
                THEN enterEmailFrom(i + 1, idp, events \o <<"fill email">> \o c.events)
                ELSE Done(events \o <<"fill email">> \o c.events)
       ELSE enterEmailFrom(i + 1, idp, events)

enterEmail(idp) == enterEmailFrom(1, idp, << >>)

clickSignIn(idp) ==
  IF idp.signIn THEN Done(<<"click Sign in">>)
  ELSE Failed("Could not find \"Sign in\" button", << >>)

RECURSIVE enterPasswordFrom(_, _, _)
enterPasswordFrom(i, idp, events) ==
  IF i > PasswordSelectors
  THEN Failed("Could not find password input field", events)
  ELSE IF i \in idp.password
       THEN LET c == clickSignIn(idp)
            IN  IF c.threw
                THEN enterPasswordFrom(i + 1, idp, events \o <<"fill password">> \o c.events)
                ELSE Done(events \o <<"fill password">> \o c.events)
       ELSE enterPasswordFrom(i + 1, idp, events)

enterPassword(idp) == enterPasswordFrom(1, idp, << >>)

\* handleStaySignedIn without the catch
handleStaySignedIn_Uncaught(idp) ==
  CASE idp.stay = "absent"   -> Done(<< >>)
    [] idp.stay = "yes"      -> Done(<<"click Yes">>)
    [] idp.stay = "yesAndNo" -> Done(<<"click No">>)
    [] idp.stay = "error"    -> Failed("isVisible: Error", << >>)

\* try { if Yes is visible: click No if visible, else Yes } catch { }
handleStaySignedIn(idp) ==
  CASE idp.stay = "absent"   -> Done(<< >>)
    [] idp.stay = "yes"      -> Done(<<"click Yes">>)
    [] idp.stay = "yesAndNo" -> Done(<<"click No">>)
    [] idp.stay = "error"    -> Done(<< >>)

waitForAuthComplete(idp) ==
  IF idp.leftIdp THEN Done(<<"left identity provider">>)
  ELSE Failed("waitForURL: Timeout", << >>)

\* login that enters the password before the email
MicrosoftSSOHelper_login_PasswordFirst(idp) ==
  AndThen(Done(<<"login">>),
    AndThen(waitForLoginPage(idp),
      AndThen(enterPassword(idp),
        AndThen(enterEmail(idp),
          AndThen(handleStaySignedIn(idp), waitForAuthComplete(idp))))))

\* login: the five steps in order; catch (error) { throw error }
MicrosoftSSOHelper_login(idp) ==
  AndThen(Done(<<"login">>),
    AndThen(waitForLoginPage(idp),
      AndThen(enterEmail(idp),
        AndThen(enterPassword(idp),
          AndThen(handleStaySignedIn(idp), waitForAuthComplete(idp))))))

(***************************************************************************)
(* The fixtures of authenticatedMultiUserTest.  A test names the fixtures   *)
(* it wants in the parameter of its body; the runner sets each one up,      *)
(* after the fixtures it depends on, in the order they are named, runs the  *)
(* body, and tears the fixtures down in the reverse of the order in which   *)
(* they were set up.  A fixture function is its setup, use(value), and its  *)
(* teardown.                                                                *)
(***************************************************************************)
\* userNPage: async ({ userNContext }, use): the context a role's page opens in
ContextOf_FirstUser(role) == "user1"

ContextOf(role) == role

\* the fixtures named in the parameter of each fixture function
Deps(f) ==
  CASE f = BrowserFixture  -> << >>
    [] f = CombinedFixture -> <<UserFixture("Page", "user1"),
                                UserFixture("Page", "user2"),
                                UserFixture("Page", "user3")>>
    [] f[1] = "Context"    -> <<BrowserFixture>>
    [] f[1] = "Page"       -> <<UserFixture("Context", ContextOf(f[2]))>>
    [] f[1] = "Registry"   -> <<UserFixture("Page", f[2])>>
    [] f[1] = "Alias"      -> <<UserFixture("Registry", f[2])>>

\* the order of setup: each fixture after its dependencies, once
RECURSIVE Need(_, _), NeedAll(_, _)
Need(f, planned) ==
  IF f \in Range(planned) THEN planned
  ELSE Append(NeedAll(Deps(f), planned), f)

NeedAll(fs, planned) ==
  IF fs = << >> THEN planned
  ELSE NeedAll(Tail(fs), Need(Head(fs), planned))

Plan(signature) == NeedAll(signature, << >>)

\* the parameters of the test bodies: ({ user1, user2 }),
\* ({ user1, user2, user3 }), ({ registry }),
\* ({ user1Context, user2Context, user1, user2 }), ({ user1, user1Page }) and
\* tests that ask for the combined registry and a role's registry, in
\* either order
Signatures ==
  { <<UserFixture("Alias", "user1"), UserFixture("Alias", "user2")>>,
    <<UserFixture("Alias", "user1"), UserFixture("Alias", "user2"),
      UserFixture("Alias", "user3")>>,
    <<CombinedFixture>>,
    <<UserFixture("Context", "user1"), UserFixture("Context", "user2"),
      UserFixture("Alias", "user1"), UserFixture("Alias", "user2")>>,
    <<UserFixture("Alias", "user1"), UserFixture("Page", "user1")>>,
    <<CombinedFixture, UserFixture("Alias", "user1")>>,
    <<UserFixture("Alias", "user1"), CombinedFixture>> }

\* what the login check of a page fixture can come to: no Login button
\* (already logged in), Login button and SSO login done, Login button but
\* no credentials configured (a warning only), or the login rejecting
LoginOutcomes == {"notNeeded", "done", "noCredentials", "rejected"}

\* a setup that logs in whether or not the Login button is visible
UserPage_setup_AlwaysLogin(visible, creds, idp) ==
  LET opened == Done(<<"goto baseUrl">>)
      r == IF creds
           THEN AndThen(opened, AndThen(Done(<<"click Login">>), MicrosoftSSOHelper_login(idp)))
           ELSE opened
  IN  [threw   |-> r.threw,
       error   |-> r.error,
       events  |-> r.events,
       outcome |-> IF ~visible THEN "notNeeded"
                   ELSE IF ~creds THEN "noCredentials"
                   ELSE IF r.threw THEN "rejected" ELSE "done"]

\* userNPage up to use(page): goto(baseUrl); if the Login button is visible
\* and config.userN.email && config.userN.password, click it and log in,
\* else if it is visible only warn; a login that rejects rejects the fixture
UserPage_setup(visible, creds, idp) ==
  LET opened == Done(<<"goto baseUrl">>)
      r == IF visible /\ creds
           THEN AndThen(opened, AndThen(Done(<<"click Login">>), MicrosoftSSOHelper_login(idp)))
           ELSE opened
  IN  [threw   |-> r.threw,
       error   |-> r.error,
       events  |-> r.events,
       outcome |-> IF ~visible THEN "notNeeded"
                   ELSE IF ~creds THEN "noCredentials"
                   ELSE IF r.threw THEN "rejected" ELSE "done"]

historyUnchanged ==
  UNCHANGED <<prev, last, bound, rebound, held, tpc, nextInst, setupVars, wait, utilVars>>

\* the next fixture to set up is f
SettingUp(f) == phase = "setup" /\ todo # << >> /\ Head(todo) = f

\* f handed value to use()
Use(f, value) ==
  /\ fx' = [fx EXCEPT ![f] = value]
  /\ todo' = Tail(todo)
  /\ stack' = Append(stack, f)

\* the last fixture set up, whose teardown runs next, is f
TearingDown(f) == phase = "teardown" /\ stack # << >> /\ stack[Len(stack)] = f

Torn == stack' = SubSeq(stack, 1, Len(stack) - 1)

\* browser: playwright[browserName].launch(...); use(browser)
LaunchBrowser ==
  /\ SettingUp(BrowserFixture)
  /\ browser' = "open"
  /\ Use(BrowserFixture, 1)
  /\ UNCHANGED <<heap, multi, nextObj, ctxs, tabs, phase>>
  /\ historyUnchanged

\* userNContext: browser.newContext({..., storageState: userN.json}); use(context)
\* newContext reads the file whatever its age and rejects when there is none,
\* which fails the test
UserContext(role) ==
  /\ SettingUp(UserFixture("Context", role))
  /\ IF files[role].exists
     THEN /\ ctxs' = ctxs @@ (nextObj :> [storageState |-> role,
                                          seedAge |-> now - files[role].mtime,
                                          closed |-> FALSE])
          /\ nextObj' = nextObj + 1
          /\ Use(UserFixture("Context", role), nextObj)
          /\ UNCHANGED phase
     ELSE /\ phase' = "teardown"
          /\ UNCHANGED <<ctxs, nextObj, fx, todo, stack>>
  /\ UNCHANGED <<heap, multi, browser, tabs>>
  /\ historyUnchanged

\* userNPage: context.newPage(), the setup, use(page).  A setup that rejects
\* fails the test: the fixtures set up so far are torn down.
UserPage(role, visible, creds, idp) ==
  /\ SettingUp(UserFixture("Page", role))
  /\ LET r == UserPage_setup(visible, creds, idp)
     IN  /\ tabs' = tabs @@ (nextObj :>
                      [context |-> fx[UserFixture("Context", ContextOf(role))],
                       url |-> IF r.threw THEN "identityProvider" ELSE "baseUrl",
                       loginVisible |-> visible,
                       login |-> r.outcome,
                       idp |-> IF visible /\ creds THEN idp ELSE NoIdp,
                       events |-> r.events,
                       error |-> r.error,
                       closed |-> FALSE])
         /\ IF r.threw
            THEN /\ phase' = "teardown"
                 /\ UNCHANGED <<fx, todo, stack>>
            ELSE /\ Use(UserFixture("Page", role), nextObj)
                 /\ UNCHANGED phase
  /\ nextObj' = nextObj + 1
  /\ UNCHANGED <<heap, multi, browser, ctxs>>
  /\ historyUnchanged

\* userNRegistry: createAppRegistry(userNPage); use(registry)
UserRegistry(role) ==
  /\ SettingUp(UserFixture("Registry", role))
  /\ heap' = heap @@ (nextObj :> createAppRegistry(fx[UserFixture("Page", role)]))
  /\ nextObj' = nextObj + 1
  /\ Use(UserFixture("Registry", role), nextObj)
  /\ UNCHANGED <<multi, browser, ctxs, tabs, phase>>
  /\ historyUnchanged

\* userN: use(userNRegistry)
UserAlias(role) ==
  /\ SettingUp(UserFixture("Alias", role))
  /\ Use(UserFixture("Alias", role), fx[UserFixture("Registry", role)])
  /\ UNCHANGED <<heap, multi, nextObj, browser, ctxs, tabs, phase>>
  /\ historyUnchanged

\* registry: createMultiUserRegistry(user1Page, user2Page, user3Page); use(registry)
CombinedRegistry ==
  /\ SettingUp(CombinedFixture)
  /\ LET m == createMultiUserRegistry(fx[UserFixture("Page", "user1")],
                                      fx[UserFixture("Page", "user2")],
                                      fx[UserFixture("Page", "user3")],
                                      heap, nextObj)
     IN  /\ heap' = m.heap
         /\ multi' = m.self
         /\ nextObj' = m.n + 1
         /\ Use(CombinedFixture, m.n)
  /\ UNCHANGED <<browser, ctxs, tabs, phase>>
  /\ historyUnchanged

\* every fixture the test asked for is set up: the body starts
StartBody ==
  /\ phase = "setup"
  /\ todo = << >>
  /\ phase' = "body"
  /\ UNCHANGED <<heap, multi, nextObj, browser, ctxs, tabs, fx, todo, stack>>
  /\ historyUnchanged

\* the body returns or throws
EndBody ==
  /\ phase = "body"
  /\ phase' = "teardown"
  /\ UNCHANGED <<heap, multi, nextObj, browser, ctxs, tabs, fx, todo, stack>>
  /\ historyUnchanged

\* userN: nothing after use()
ReleaseAlias(role) ==
  /\ TearingDown(UserFixture("Alias", role))
  /\ Torn
  /\ UNCHANGED <<heap, multi, nextObj, browser, ctxs, tabs, fx, todo, phase>>
  /\ historyUnchanged

\* userNRegistry without registry.clearAll() after use()
ClearUserRegistry_NoClear(role) ==
  /\ TearingDown(UserFixture("Registry", role))
  /\ Torn
  /\ UNCHANGED <<heap, multi, nextObj, browser, ctxs, tabs, fx, todo, phase>>
  /\ historyUnchanged

\* userNRegistry: registry.clearAll()
ClearUserRegistry(role) ==
  /\ TearingDown(UserFixture("Registry", role))
  /\ ClearAllCall(fx[UserFixture("Registry", role)])
  /\ Torn
  /\ UNCHANGED <<multi, nextObj, browser, ctxs, tabs, fx, todo, phase, tpc, setupVars, wait, utilVars>>

\* registry: a teardown that empties every registry of the test, the
\* per-role ones included
ClearCombinedRegistry_EveryRegistry ==
  /\ TearingDown(CombinedFixture)
  /\ heap' = [a \in DOMAIN heap |-> AppRegistry_clearAll(heap[a])]
  /\ prev' = NoCall
  /\ last' = CallRec("multi.clearAll", Undefined, "", "", "",
                     \E a \in Members(multi) : AppRegistry_getCacheStats(heap[a]).total > 0,
                     << >>, FALSE,
                     {r \in Roles : AppRegistry_getCacheStats(heap[multi[r]]).total > 0})
  /\ bound' = Unbind(bound, DOMAIN heap, Namespaces)
  /\ rebound' = Unbind(rebound, DOMAIN heap, Namespaces)
  /\ held' = Release(held, DOMAIN heap, Namespaces)
  /\ UNCHANGED nextInst
  /\ Torn
  /\ UNCHANGED <<multi, nextObj, browser, ctxs, tabs, fx, todo, phase, tpc, setupVars, wait, utilVars>>

\* registry: registry.clearAll()
ClearCombinedRegistry ==
  /\ TearingDown(CombinedFixture)
  /\ MultiClearAllCall
  /\ Torn
  /\ UNCHANGED <<multi, nextObj, browser, ctxs, tabs, fx, todo, phase, tpc, setupVars, wait, utilVars>>

\* userNPage: page.close()
ClosePage(role) ==
  /\ TearingDown(UserFixture("Page", role))
  /\ tabs' = [tabs EXCEPT ![fx[UserFixture("Page", role)]].closed = TRUE]
  /\ Torn
  /\ UNCHANGED <<heap, multi, nextObj, browser, ctxs, fx, todo, phase>>
  /\ historyUnchanged

\* userNContext: context.close(), which closes the pages of the context
CloseContext(role) ==
  /\ TearingDown(UserFixture("Context", role))
  /\ ctxs' = [ctxs EXCEPT ![fx[UserFixture("Context", role)]].closed = TRUE]
  /\ tabs' = [p \in DOMAIN tabs |->
                IF tabs[p].context = fx[UserFixture("Context", role)]
                THEN [tabs[p] EXCEPT !.closed = TRUE] ELSE tabs[p]]
  /\ Torn
  /\ UNCHANGED <<heap, multi, nextObj, browser, fx, todo, phase>>
  /\ historyUnchanged

\* browser: browser.close(), which closes every context and page
CloseBrowser ==
  /\ TearingDown(BrowserFixture)
  /\ browser' = "closed"
  /\ ctxs' = [c \in DOMAIN ctxs |-> [ctxs[c] EXCEPT !.closed = TRUE]]
  /\ tabs' = [p \in DOMAIN tabs |-> [tabs[p] EXCEPT !.closed = TRUE]]
  /\ Torn
  /\ UNCHANGED <<heap, multi, nextObj, fx, todo, phase>>
  /\ historyUnchanged

\* every fixture is torn down
EndTest ==
  /\ phase = "teardown"
  /\ stack = << >>
  /\ phase' = "end"
  /\ UNCHANGED <<heap, multi, nextObj, browser, ctxs, tabs, fx, todo, stack>>
  /\ historyUnchanged

InitFixture ==
  /\ heap = << >>
  /\ multi = NoMulti
  /\ nextObj = 2
  /\ nextInst = 1
  /\ prev = NoCall
  /\ last = NoCall
  /\ bound = {}
  /\ rebound = {}
  /\ tpc = << >>
  /\ held = << >>
  /\ browser = "none"
  /\ ctxs = << >>
  /\ tabs = << >>
  /\ fx = [f \in Fixtures |-> Undefined]
  /\ \E signature \in Signatures : todo = Plan(signature)
  /\ stack = << >>
  /\ phase = "setup"
  /\ AfterGlobalSetup
  /\ wait = NoWait
  /\ userFactory = NoEmails
  /\ util = NoUtil

\* the body uses the registries it was handed: lazy fill through a named
\* getter, manual set, clear and statistics, of a role and of the combination
NextFixture ==
  \/ LaunchBrowser
  \/ \E role \in Roles : UserContext(role)
  \/ \E role \in Roles, visible \in BOOLEAN, idp \in {GoodIdp, NoIdp} :
       UserPage(role, visible, TRUE, idp)
  \/ \E role \in Roles : UserRegistry(role)
  \/ \E role \in Roles : UserAlias(role)
  \/ CombinedRegistry
  \/ StartBody
  \/ \E a \in DOMAIN heap : phase = "body" /\ Home(a)
  \/ \E a \in DOMAIN heap, s \in 1..MaxInst : phase = "body" /\ SetService(a, FreeKey, s)
  \/ \E a \in DOMAIN heap : phase = "body" /\ PagesClearCache(a)
  \/ \E a \in DOMAIN heap : phase = "body" /\ ServicesClearCache(a)
  \/ \E a \in DOMAIN heap : phase = "body" /\ ClearAll(a)
  \/ \E a \in DOMAIN heap : phase = "body" /\ GetCacheStats(a)
  \/ phase = "body" /\ MultiClearAll
  \/ EndBody
  \/ \E role \in Roles : ReleaseAlias(role)
  \/ \E role \in Roles : ClearUserRegistry(role)
  \/ ClearCombinedRegistry
  \/ \E role \in Roles : ClosePage(role)
  \/ \E role \in Roles : CloseContext(role)
  \/ CloseBrowser
  \/ EndTest

SpecFixture == InitFixture /\ [][NextFixture]_vars

(***************************************************************************)
(* One test that asks for the page of one user, async ({ user1Page }),      *)
(* whatever the Login button, the configuration and the identity provider   *)
(* do.                                                                      *)
(***************************************************************************)
InitLogin ==
  /\ heap = << >>
  /\ multi = NoMulti
  /\ nextObj = 2
  /\ nextInst = 1
  /\ prev = NoCall
  /\ last = NoCall
  /\ bound = {}
  /\ rebound = {}
  /\ tpc = << >>
  /\ held = << >>
  /\ browser = "none"
  /\ ctxs = << >>
  /\ tabs = << >>
  /\ fx = [f \in Fixtures |-> Undefined]
  /\ todo = Plan(<<UserFixture("Page", "user1")>>)
  /\ stack = << >>
  /\ phase = "setup"
  /\ AfterGlobalSetup
  /\ wait = NoWait
  /\ userFactory = NoEmails
  /\ util = NoUtil

NextLogin ==
  \/ LaunchBrowser
  \/ \E role \in Roles : UserContext(role)
  \/ \E role \in Roles :
       /\ SettingUp(UserFixture("Page", role))
       /\ \E visible \in BOOLEAN, creds \in BOOLEAN, idp \in IdpBehaviours :
            UserPage(role, visible, creds, idp)
  \/ StartBody
  \/ EndBody
  \/ \E role \in Roles : ClosePage(role)
  \/ \E role \in Roles : CloseContext(role)
  \/ CloseBrowser
  \/ EndTest

SpecLogin == InitLogin /\ [][NextLogin]_vars

(***************************************************************************)
(* globalSetup (tests/global-setup.ts) and a test after it.  globalSetup    *)
(* goes through user1, user2, user3; for each user whose email and          *)
(* password are set it calls authenticateUser, which keeps a stored state   *)
(* that is less than 12 hours old and otherwise opens a context, logs in    *)
(* when the Login button shows and writes the stored state.  The tests run  *)
(* when globalSetup has returned.  Time passes meanwhile.                   *)
(***************************************************************************)
\* if (hoursSinceModified < 12)
FreshHours == 12

\* const users = [user1, user2, user3]
Users == <<"user1", "user2", "user3">>

\* the stored states a run can find: none, or one written 1, 11 or 20 hours ago
FoundArtifacts ==
  {[exists |-> FALSE, mtime |-> 0]}
  \cup {[exists |-> TRUE, mtime |-> 0 - age] : age \in {1, 11, 20}}

\* an identity provider whose login page shows no email input
NoEmailIdp == [GoodIdp EXCEPT !.email = {}]

\* authenticateUser that writes the stored state although the login rejected
authenticateUser_WriteAnyway(role, file, t, visible, idp) ==
  LET opened == Done(<<"newContext", "newPage", "goto baseUrl">>)
      flow == IF visible
              THEN AndThen(opened, AndThen(Done(<<"click Login">>), MicrosoftSSOHelper_login(idp)))
              ELSE opened
  IN  IF file.exists /\ t - file.mtime < FreshHours
      THEN [run  |-> [role |-> role, reused |-> TRUE, visible |-> FALSE, events |-> << >>,
                      wrote |-> FALSE, threw |-> FALSE, error |-> "",
                      before |-> file, at |-> t],
            file |-> file]
      ELSE [run  |-> [role |-> role, reused |-> FALSE, visible |-> visible,
                      events |-> flow.events \o <<"storageState", "close context">>,
                      wrote |-> TRUE, threw |-> flow.threw, error |-> flow.error,
                      before |-> file, at |-> t],
            file |-> [exists |-> TRUE, mtime |-> t]]

\* authenticateUser that asks only whether the file exists
authenticateUser_NoExpiry(role, file, t, visible, idp) ==
  LET opened == Done(<<"newContext", "newPage", "goto baseUrl">>)
      flow == IF visible
              THEN AndThen(opened, AndThen(Done(<<"click Login">>), MicrosoftSSOHelper_login(idp)))
              ELSE opened
      saved == AndThen(flow, Done(<<"storageState", "close context">>))
  IN  IF file.exists
      THEN [run  |-> [role |-> role, reused |-> TRUE, visible |-> FALSE, events |-> << >>,
                      wrote |-> FALSE, threw |-> FALSE, error |-> "",
                      before |-> file, at |-> t],
            file |-> file]
      ELSE [run  |-> [role |-> role, reused |-> FALSE, visible |-> visible,
                      events |-> saved.events, wrote |-> ~saved.threw,
                      threw |-> saved.threw, error |-> saved.error,
                      before |-> file, at |-> t],
            file |-> IF saved.threw THEN file ELSE [exists |-> TRUE, mtime |-> t]]

\* authenticateUser at time t on the file of role: what it did, and the file
\* after it
authenticateUser(role, file, t, visible, idp) ==
  LET opened == Done(<<"newContext", "newPage", "goto baseUrl">>)
      flow == IF visible
              THEN AndThen(opened, AndThen(Done(<<"click Login">>), MicrosoftSSOHelper_login(idp)))
              ELSE opened
      saved == AndThen(flow, Done(<<"storageState", "close context">>))
  IN  IF file.exists /\ t - file.mtime < FreshHours
      THEN [run  |-> [role |-> role, reused |-> TRUE, visible |-> FALSE, events |-> << >>,
                      wrote |-> FALSE, threw |-> FALSE, error |-> "",
                      before |-> file, at |-> t],
            file |-> file]
      ELSE [run  |-> [role |-> role, reused |-> FALSE, visible |-> visible,
                      events |-> saved.events, wrote |-> ~saved.threw,
                      threw |-> saved.threw, error |-> saved.error,
                      before |-> file, at |-> t],
            file |-> IF saved.threw THEN file ELSE [exists |-> TRUE, mtime |-> t]]

\* for (const user of users) { if (user.email && user.password)
\* await authenticateUser(...) }: one turn of the loop; a rejection ends
\* globalSetup
AuthenticateNext(creds, visible, idp) ==
  /\ gs.status = "running"
  /\ gs.next <= Len(Users)
  /\ LET role == Users[gs.next]
         a == authenticateUser(role, files[role], now, visible, idp)
     IN  IF creds
         THEN /\ files' = [files EXCEPT ![role] = a.file]
              /\ gs' = [status |-> IF a.run.threw THEN "failed" ELSE "running",
                        next |-> IF a.run.threw THEN gs.next ELSE gs.next + 1,
                        run |-> a.run]
         ELSE /\ gs' = [gs EXCEPT !.next = @ + 1]
              /\ UNCHANGED files
  /\ UNCHANGED <<heap, multi, nextObj, nextInst, prev, last, bound, rebound, tpc, held,
                 fixtureVars, now, wait, utilVars>>

\* await browser.close(); the tests start
GlobalSetupReturns ==
  /\ gs.status = "running"
  /\ gs.next > Len(Users)
  /\ gs' = [gs EXCEPT !.status = "done"]
  /\ UNCHANGED <<heap, multi, nextObj, nextInst, prev, last, bound, rebound, tpc, held,
                 fixtureVars, files, now, wait, utilVars>>

\* an hour passes
Tick ==
  /\ now < MaxElapsed
  /\ now' = now + 1
  /\ UNCHANGED <<heap, multi, nextObj, nextInst, prev, last, bound, rebound, tpc, held,
                 fixtureVars, files, gs, wait, utilVars>>

InitRun ==
  /\ heap = << >>
  /\ multi = NoMulti
  /\ nextObj = 2
  /\ nextInst = 1
  /\ prev = NoCall
  /\ last = NoCall
  /\ bound = {}
  /\ rebound = {}
  /\ tpc = << >>
  /\ held = << >>
  /\ browser = "none"
  /\ ctxs = << >>
  /\ tabs = << >>
  /\ fx = [f \in Fixtures |-> Undefined]
  /\ todo = Plan(<<UserFixture("Context", "user1")>>)
  /\ stack = << >>
  /\ phase = "setup"
  /\ files \in [Roles -> FoundArtifacts]
  /\ now = 0
  /\ gs = [status |-> "running", next |-> 1, run |-> NoRun]
  /\ wait = NoWait
  /\ userFactory = NoEmails
  /\ util = NoUtil

NextRun ==
  \/ \E creds \in BOOLEAN, visible \in BOOLEAN, idp \in {GoodIdp, NoIdp, NoEmailIdp} :
       AuthenticateNext(creds, visible, idp)
  \/ GlobalSetupReturns
  \/ Tick
  \/ gs.status = "done" /\ LaunchBrowser
  \/ \E role \in Roles : gs.status = "done" /\ UserContext(role)
  \/ gs.status = "done" /\ StartBody
  \/ EndBody
  \/ \E role \in Roles : CloseContext(role)
  \/ CloseBrowser
  \/ EndTest

SpecRun == InitRun /\ [][NextRun]_vars

(***************************************************************************)
(* Properties of one registry.                                             *)
(***************************************************************************)
GenericGets == {"getPage", "getService"}

LookupOps == GenericGets \cup {"home"} \cup NamedServiceKeys

Present(h, a, ns, k) == MapHas(h[a][ns].cache, k)

\* how often factory f occurs among the factories a call invoked
Count(invoked, f) == Cardinality({i \in DOMAIN invoked : invoked[i] = f})

\* prev and last are two successive generic gets of one key that both returned
SuccessivePair == prev.op \in GenericGets /\ ~prev.threw /\ ~last.threw

\* C1 as stated: two successive calls getPage/getService(k, f1) and then
\* (k, f2), with no clear in between, invoke f1 exactly once, never invoke f2
\* and return the identical instance both times.
C1_Original ==
  SuccessivePair =>
    /\ Count(prev.invoked, prev.factory) = 1
    /\ last.invoked = << >>
    /\ last.ret = prev.ret

\* C1, amended: of two successive calls getPage/getService(k, f1) and then
\* (k, f2) that return, the first invokes f1 exactly once when k was not
\* cached before it and not at all when k was already cached, the second
\* never invokes f2, and both return the identical instance.
C1_GetTwice ==
  SuccessivePair =>
    /\ Count(prev.invoked, prev.factory) = (IF prev.hit THEN 0 ELSE 1)
    /\ last.invoked = << >>
    /\ last.hit
    /\ last.ret = prev.ret
    /\ last.ret # Undefined

C1_Witness ==
  /\ SuccessivePair
  /\ prev.op = "getService" /\ prev.factory = "f1" /\ ~prev.hit
  /\ last.factory = "f2" /\ last.ret = prev.ret

\* C2 as stated: once a lookup has returned instance v for key k of a
\* namespace, every later lookup of k returns v until that namespace is
\* cleared, whatever other operations (setService among them) run in between.
C2_Original ==
  (last.op \in LookupOps /\ ~last.threw) =>
    BoundTo(bound, last.target, last.ns, last.key) = last.ret

\* C2, amended: once a lookup has returned instance v for key k, every
\* later lookup of k returns v until the namespace is cleared or
\* setService(k, s) is called, after which lookups of k return s.
C2_OneValuePerKey ==
  (last.op \in LookupOps /\ ~last.threw) =>
    BoundTo(rebound, last.target, last.ns, last.key) = last.ret

C2_Witness ==
  /\ last.op = "getService" /\ last.hit
  /\ BoundTo(rebound, last.target, last.ns, last.key) = last.ret
  /\ BoundTo(bound, last.target, last.ns, last.key) # last.ret

\* the step made key k of namespace ns of registry a present by a factory
\* that a get or getter call invoked and that returned
FilledByFactory(a, ns, k) ==
  /\ last'.target = a /\ last'.op \in LookupOps /\ last'.ns = ns
  /\ ~last'.threw /\ last'.invoked # << >>
  /\ \/ last'.key = k
     \/ k = "home" /\ "HomePage" \in Range(last'.invoked)

\* the step is an explicit clear of namespace ns of registry a
ClearedExplicitly(a, ns) ==
  \/ last'.target = a /\ last'.op = "clearAll"
  \/ last'.target = a /\ last'.ns = ns
       /\ last'.op \in {"pages.clearCache", "services.clearCache"}
  \/ last'.op = "multi.clearAll"

SetManually(a, ns, k) ==
  last'.target = a /\ last'.op = "setService" /\ last'.ns = ns /\ last'.key = k

\* the keys of namespace ns of registry a that the step made present, and
\* those it made absent
Appeared(a, ns) == KeySet(heap'[a][ns].cache) \ KeySet(heap[a][ns].cache)

Vanished(a, ns) == KeySet(heap[a][ns].cache) \ KeySet(heap'[a][ns].cache)

\* C3 as stated: a key becomes present only through a successful factory
\* invocation made by a get or getter call, and absent only through an
\* explicit clearCache/clearAll; no other operation changes its presence.
C3_Original ==
  [][\A a \in DOMAIN heap, ns \in Namespaces :
       /\ \A k \in Appeared(a, ns) : FilledByFactory(a, ns, k)
       /\ \A k \in Vanished(a, ns) : ClearedExplicitly(a, ns)]_vars

\* C3, amended: a key becomes present only through a successful factory
\* invocation made by a get or getter call or through setService(key, ..),
\* and absent only through an explicit clearCache/clearAll.
C3_Transitions ==
  [][\A a \in DOMAIN heap, ns \in Namespaces :
       /\ \A k \in Appeared(a, ns) : FilledByFactory(a, ns, k) \/ SetManually(a, ns, k)
       /\ \A k \in Vanished(a, ns) : ClearedExplicitly(a, ns)]_vars

C3_Witness ==
  /\ last.op = "setService" /\ ~last.hit
  /\ Present(heap, last.target, "services", last.key)
  /\ \E k \in PageKeys : Present(heap, last.target, "pages", k)

\* what the caller of a throwing factory sees afterwards
AbsentAfterThrow ==
  last.threw =>
    /\ last.op \in GenericGets
    /\ ~MapHas(heap[last.target][last.ns].cache, last.key)
    /\ last.key \notin Range(AppRegistry_getCacheStats(heap[last.target])[last.ns])

\* the generic get that directly follows a throwing one of the same key
RetryAfterThrow ==
  (prev.op \in GenericGets /\ prev.threw) =>
    /\ ~last.hit
    /\ Head(last.invoked) = last.factory
    /\ ~last.threw =>
         /\ last.ret # Undefined
         /\ MapGet(heap[last.target][last.ns].cache, last.key) = last.ret

\* C4: if the factory passed to getPage/getService throws, the call throws,
\* the key stays absent (not cached, not listed in the stats), every cache
\* entry of every registry is as before, and the next call with that key
\* invokes the factory it is given and caches what it returns.
C4_FactoryThrows ==
  /\ [](AbsentAfterThrow /\ RetryAfterThrow)
  /\ [][last'.threw => heap' = heap]_vars

C4_Witness ==
  /\ prev.op = "getService" /\ prev.threw
  /\ ~last.threw /\ last.ret # Undefined
  /\ MapGet(heap[last.target].services.cache, last.key) = last.ret
  /\ heap[last.target].pages.cache # << >>

EmptyStats == [pages |-> << >>, services |-> << >>, total |-> 0]

\* C5: after AppRegistry.clearAll(), getCacheStats() of that registry is
\* total 0 with empty pages and services lists.
C5_ClearAllComplete ==
  last.op = "clearAll" => AppRegistry_getCacheStats(heap[last.target]) = EmptyStats

C5_Witness ==
  /\ last.op = "clearAll" /\ last.hit
  /\ AppRegistry_getCacheStats(heap[last.target]) = EmptyStats
  /\ nextInst > 2

\* C7: pages.clearCache() leaves the services cache of the same AppRegistry
\* as it is and services.clearCache() leaves the pages cache as it is; a
\* generic get looks its key up in its own namespace only and writes to its
\* own namespace only, so one key string holds an entry of its own in each.
C7_CacheIsolation ==
  [][\A a \in DOMAIN heap :
       /\ (last'.target = a /\ last'.op = "pages.clearCache")
            => heap'[a].services = heap[a].services
       /\ (last'.target = a /\ last'.op = "services.clearCache")
            => heap'[a].pages = heap[a].pages
       /\ (last'.target = a /\ last'.op = "getPage")
            => /\ last'.hit = Present(heap, a, "pages", last'.key)
               /\ heap'[a].services = heap[a].services
       /\ (last'.target = a /\ last'.op = "getService")
            => /\ last'.hit = Present(heap, a, "services", last'.key)
               /\ heap'[a].pages = heap[a].pages]_vars

C7_Witness ==
  /\ last.op = "pages.clearCache" /\ last.hit
  /\ heap[last.target].pages.cache = << >>
  /\ Present(heap, last.target, "services", FreeKey)

(***************************************************************************)
(* Properties of the MultiUserRegistry.                                    *)
(***************************************************************************)
StatsOf(r) == AppRegistry_getCacheStats(heap[multi[r]])

\* C6: after MultiUserRegistry.clearAll() returns, getCacheStats().total is 0
\* for each of its members user1, user2 and user3.
C6_ComposerClearAll ==
  last.op = "multi.clearAll" => \A r \in Roles : StatsOf(r).total = 0

C6_Witness ==
  /\ last.op = "multi.clearAll"
  /\ Cardinality(last.ret) >= 2
  /\ \A r \in Roles : StatsOf(r).total = 0

\* the step is a call on the member registry of role r that can fill a cache
UsesOwnRegistry(r) ==
  last'.target = multi[r] /\ last'.op \in LookupOps \cup {"setService"}

InvokedKeys ==
  IF tpc' = tpc /\ last'.op \in LookupOps /\ last'.invoked # << >>
  THEN {<<last'.ns, last'.key>>}
       \cup (IF "HomePage" \in Range(last'.invoked)
             THEN {<<"pages", "home">>} ELSE {})
  ELSE {}

\* any two tasks hold the same instance of a key
TasksAgree ==
  \A t1 \in DOMAIN held, t2 \in DOMAIN held :
    \A x \in held[t1], y \in held[t2] :
      (x[1] = y[1] /\ x[2] = y[2] /\ x[3] = y[3]) => x[4] = y[4]

\* a factory is invoked for a key only if no instance was obtained for the
\* key since the last clear
InvokedOnce ==
  \A u \in InvokedKeys : ~IsBound(bound, last'.target, u[1], u[2])

RolesOf(a) == {r \in Roles : fx[UserFixture("Page", r)] = heap[a].page}

\* the fixtures of kind that are set up, for two different roles
BothSetUp(kind, r1, r2) ==
  /\ r1 # r2
  /\ fx[UserFixture(kind, r1)] # Undefined
  /\ fx[UserFixture(kind, r2)] # Undefined

\* different roles have different contexts, seeded from different files,
\* different pages, each opened in the context of its own role, and
\* different registries, each over the page of its own role
RolesDistinct ==
  \A r1 \in Roles, r2 \in Roles :
    /\ BothSetUp("Context", r1, r2) =>
         /\ fx[UserFixture("Context", r1)] # fx[UserFixture("Context", r2)]
         /\ ctxs[fx[UserFixture("Context", r1)]].storageState
              # ctxs[fx[UserFixture("Context", r2)]].storageState
    /\ BothSetUp("Page", r1, r2) =>
         /\ fx[UserFixture("Page", r1)] # fx[UserFixture("Page", r2)]
         /\ tabs[fx[UserFixture("Page", r1)]].context
              # tabs[fx[UserFixture("Page", r2)]].context
    /\ BothSetUp("Registry", r1, r2) =>
         /\ fx[UserFixture("Registry", r1)] # fx[UserFixture("Registry", r2)]
         /\ heap[fx[UserFixture("Registry", r1)]].page = fx[UserFixture("Page", r1)]
         /\ heap[fx[UserFixture("Registry", r2)]].page = fx[UserFixture("Page", r2)]
    /\ BothSetUp("Alias", r1, r2) =>
         fx[UserFixture("Alias", r1)] # fx[UserFixture("Alias", r2)]
    /\ (r1 # r2 /\ multi # NoMulti) =>
         /\ multi[r1] # multi[r2]
         /\ heap[multi[r1]].page # heap[multi[r2]].page

\* a cache operation of the body on one registry leaves the registries of
\* the other roles as they were, contents and statistics
OthersUntouched ==
  (phase = "body" /\ phase' = "body" /\ last'.target \in DOMAIN heap) =>
    \A b \in DOMAIN heap :
      RolesOf(b) # RolesOf(last'.target) =>
        /\ heap'[b] = heap[b]
        /\ AppRegistry_getCacheStats(heap'[b]) = AppRegistry_getCacheStats(heap[b])

\* C9: for any two distinct roles of one test the fixture provides distinct
\* browser contexts (seeded from distinct files), distinct pages, each in
\* its own role's context, and distinct AppRegistry instances, and no cache
\* operation (lazy fill, manual set, clear) on one role's registry changes
\* the cache contents or the cache statistics of another role's registry.
C9_RoleIsolation == []RolesDistinct /\ [][OthersUntouched]_vars

\* the body cleared the filled registry of user1 while the registry of
\* user2, a different object over a different page in a different context,
\* holds a manually set service
C9_Witness ==
  /\ phase = "body"
  /\ BothSetUp("Registry", "user1", "user2")
  /\ last.op = "clearAll" /\ last.hit
  /\ last.target = fx[UserFixture("Registry", "user1")]
  /\ AppRegistry_getCacheStats(heap[fx[UserFixture("Registry", "user2")]]).services
       = <<FreeKey>>
  /\ tabs[fx[UserFixture("Page", "user1")]].context = fx[UserFixture("Context", "user1")]
  /\ tabs[fx[UserFixture("Page", "user2")]].context = fx[UserFixture("Context", "user2")]
(***************************************************************************)
(* Properties of the fixtures.                                             *)
(***************************************************************************)
\* the test body has started and has not called a registry yet
BodyStarts == phase = "body" /\ last.op = "none"

\* C11: when a test body starts under the fixture and has not called a
\* registry accessor yet, the cache statistics of every registry it was
\* handed, per role and through the combined registry, list 'home' among
\* the cached pages.
C11_HomeCachedAtStart ==
  BodyStarts =>
    /\ \A a \in DOMAIN heap :
         "home" \in Range(AppRegistry_getCacheStats(heap[a]).pages)
    /\ multi # NoMulti =>
         \A role \in Roles :
           "home" \in Range(MultiUserRegistry_getCacheStats(multi, heap)[role].pages)
\* the step that constructs the combined registry
ComposerConstructed == multi = NoMulti /\ multi' # NoMulti

\* the step is a call on the combined registry
ComposerCalled ==
  /\ multi # NoMulti
  /\ last'.op \in {"multi.clearAll", "multi.getCacheStats"}
  /\ \/ phase = "body" /\ phase' = "body"
     \/ TearingDown(CombinedFixture)

\* once constructed the combined registry keeps its members, each over its
\* page, and a call on it creates no registry
ComposerAggregates ==
  /\ multi # NoMulti =>
       /\ multi' = multi
       /\ \A role \in Roles : heap'[multi[role]].page = heap[multi[role]].page
  /\ ComposerCalled => DOMAIN heap' = DOMAIN heap

\* C12 as stated: every member the combined registry exposes is a registry
\* object that existed before the combined registry was constructed, and the
\* combined registry only aggregates clear-all, stats and read access.
C12_Original ==
  [][/\ ComposerConstructed => \A role \in Roles : multi'[role] \in DOMAIN heap
     /\ ComposerAggregates]_vars

\* C12, amended: the combined registry is handed three pages that existed
\* before it and constructs its members itself, one new AppRegistry with
\* empty caches per page, leaving the registries that existed untouched;
\* after that it keeps these members, each over its page, and a call on it
\* (clear-all, stats) creates no registry.
C12_ComposerBuildsMembers ==
  [][/\ ComposerConstructed =>
          /\ \A role \in Roles :
               /\ multi'[role] \notin DOMAIN heap
               /\ fx[UserFixture("Page", role)] \in DOMAIN tabs
               /\ heap'[multi'[role]] = createAppRegistry(fx[UserFixture("Page", role)])
          /\ \A a \in DOMAIN heap : heap'[a] = heap[a]
     /\ ComposerAggregates]_vars

\* the body cleared, through the combined registry, members that the
\* combined registry had built and that the body had filled
C12_Witness ==
  /\ phase = "body"
  /\ multi # NoMulti
  /\ last.op = "multi.clearAll" /\ last.hit
  /\ \A role \in Roles : heap[multi[role]].page = fx[UserFixture("Page", role)]
(***************************************************************************)
(* Properties of the login.                                                *)
(***************************************************************************)
\* the pages that were handed to the test
HandedPages == {fx[UserFixture("Page", role)] : role \in Roles} \ {Undefined}

\* C13: if the Login button is not visible after the navigation to the base
\* URL, the page is handed to the test with nothing else done on it: the
\* Login button is not clicked, MicrosoftSSOHelper.login is not invoked and
\* the page has not gone to the identity provider.
C13_NoLoginWhenLoggedIn ==
  \A p \in DOMAIN tabs :
    ~tabs[p].loginVisible =>
      /\ p \in HandedPages
      /\ tabs[p].events = <<"goto baseUrl">>
      /\ tabs[p].url = "baseUrl"
      /\ tabs[p].login = "notNeeded"

\* the body runs on a page whose Login button was not visible
C13_Witness ==
  /\ phase = "body"
  /\ \E p \in HandedPages : ~tabs[p].loginVisible /\ ~tabs[p].closed

\* C14: whenever the Login button is visible after navigation, the fixture
\* either completes the login before the page is handed to the test or
\* fails the setup; a test never receives a page on which the Login button
\* was visible and no login was performed.
C14_LoginBeforeBody ==
  \A p \in HandedPages :
    tabs[p].loginVisible =>
      /\ "login" \in Range(tabs[p].events)
      /\ tabs[p].login = "done"

\* every step of the login that must be reached is reached
AllReached(idp) ==
  /\ idp.loginPage
  /\ idp.email # {}
  /\ idp.next
  /\ idp.password # {}
  /\ idp.signIn
  /\ idp.leftIdp

\* C15: MicrosoftSSOHelper.login rejects whenever the login page, the email
\* field, the Next button, the password field, the Sign-in button or the
\* navigation away from the identity provider is not reached, and whatever
\* the "Stay signed in?" prompt does (absent, shown, raising an error) never
\* makes it reject: it rejects exactly when one of those six is not reached.
C15_LoginRejects ==
  \A p \in DOMAIN tabs :
    "login" \in Range(tabs[p].events) =>
      /\ tabs[p].login \in {"done", "rejected"}
      /\ tabs[p].login = "rejected" <=> ~AllReached(tabs[p].idp)
      /\ tabs[p].login = "rejected" <=> tabs[p].error # ""

\* a login completed although handling the prompt raised an error, and the
\* page was handed to the test
C15_Witness ==
  \E p \in HandedPages :
    /\ tabs[p].idp.stay = "error"
    /\ tabs[p].login = "done"
    /\ tabs[p].events[Len(tabs[p].events)] = "left identity provider"
(***************************************************************************)
(* Waits on a page: WaitHelpers, BasePage and BaseFragment.  Time is in    *)
(* units of 10 seconds.                                                    *)
(***************************************************************************)
\* the longest timeout a caller passes
MaxWait == 2

\* { timeout: 10000 } of the network-idle wait of waitForPageLoad
PageLoadIdle == 1

\* a load state the page does not reach within any timeout
Never == MaxWait + 2

\* when the page reaches domcontentloaded and networkidle; the network is
\* idle no earlier than the document is loaded
Loads == {l \in [dom : 0..Never, idle : 0..Never] : l.dom <= l.idle}

Timeouts == 1..MaxWait

\* page.waitForLoadState(state, { timeout }) called at time from
waitForLoadState(load, from, state, timeout) ==
  IF load[state] <= from + timeout
  THEN [threw |-> FALSE, error |-> "", timedOut |-> {},
        at |-> IF load[state] > from THEN load[state] ELSE from]
  ELSE [threw |-> TRUE, error |-> "TimeoutError", timedOut |-> {state},
        at |-> from + timeout]

\* promise.catch(() => {})
Swallow_Rethrow(r) == r
Swallow(r) == [r EXCEPT !.threw = FALSE, !.error = ""]

\* page.waitForTimeout(t)
waitForTimeout(r, t) == [r EXCEPT !.at = @ + t]

WaitHelpers_waitForNetworkIdle(load, from, timeout, idleTime) ==
  waitForTimeout(Swallow(waitForLoadState(load, from, "idle", timeout)), idleTime)

BasePage_waitForNetworkIdle(load, from, timeout) ==
  Swallow(waitForLoadState(load, from, "idle", timeout))

BaseFragment_waitForNetworkIdle(load, from, timeout) ==
  Swallow(waitForLoadState(load, from, "idle", timeout))

\* navTimeout is the configured default of the page, used by the
\* domcontentloaded wait, which passes none
BasePage_waitForPageLoad(load, from, navTimeout) ==
  LET d == waitForLoadState(load, from, "dom", navTimeout)
      i == Swallow(waitForLoadState(load, d.at, "idle", PageLoadIdle))
  IN  IF d.threw THEN d ELSE i

\* the waits whose only wait is the one for network idle
IdleWaits ==
  {"WaitHelpers.waitForNetworkIdle", "BasePage.waitForNetworkIdle",
   "BaseFragment.waitForNetworkIdle"}

waitUnchanged ==
  UNCHANGED <<heap, multi, nextObj, nextInst, prev, last, bound, rebound, tpc, held,
              fixtureVars, setupVars, utilVars>>

\* a wait called op with this timeout has returned r
Waited(op, timeout, r) ==
  /\ wait.at < Never
  /\ wait' = [load |-> wait.load, op |-> op, from |-> wait.at, timeout |-> timeout,
              threw |-> r.threw, error |-> r.error, timedOut |-> r.timedOut,
              at |-> r.at]
  /\ waitUnchanged

WaitHelpersWaitForNetworkIdle(timeout, idleTime) ==
  Waited("WaitHelpers.waitForNetworkIdle", timeout,
         WaitHelpers_waitForNetworkIdle(wait.load, wait.at, timeout, idleTime))

BasePageWaitForNetworkIdle(timeout) ==
  Waited("BasePage.waitForNetworkIdle", timeout,
         BasePage_waitForNetworkIdle(wait.load, wait.at, timeout))

BaseFragmentWaitForNetworkIdle(timeout) ==
  Waited("BaseFragment.waitForNetworkIdle", timeout,
         BaseFragment_waitForNetworkIdle(wait.load, wait.at, timeout))

BasePageWaitForPageLoad(navTimeout) ==
  Waited("BasePage.waitForPageLoad", navTimeout,
         BasePage_waitForPageLoad(wait.load, wait.at, navTimeout))

InitWaits ==
  /\ AfterGlobalSetup
  /\ browser = "none"
  /\ ctxs = << >>
  /\ tabs = << >>
  /\ fx = [f \in Fixtures |-> Undefined]
  /\ todo = << >>
  /\ stack = << >>
  /\ phase = "body"
  /\ tpc = << >>
  /\ heap = << >>
  /\ multi = NoMulti
  /\ nextObj = 1
  /\ nextInst = 1
  /\ prev = NoCall
  /\ last = NoCall
  /\ bound = {}
  /\ rebound = {}
  /\ held = << >>
  /\ wait \in {[NoWait EXCEPT !.load = l] : l \in Loads}
  /\ userFactory = NoEmails
  /\ util = NoUtil

NextWaits ==
  \/ \E timeout \in Timeouts, idleTime \in 0..1 :
       WaitHelpersWaitForNetworkIdle(timeout, idleTime)
  \/ \E timeout \in Timeouts : BasePageWaitForNetworkIdle(timeout)
  \/ \E timeout \in Timeouts : BaseFragmentWaitForNetworkIdle(timeout)
  \/ \E navTimeout \in Timeouts : BasePageWaitForPageLoad(navTimeout)

SpecWaits == InitWaits /\ [][NextWaits]_vars

(***************************************************************************)
(* UserFactory: the static counter and the emails it generates.            *)
(***************************************************************************)
\* the most requests generated in one process
MaxEmails == 3

\* the most milliseconds that pass
MaxMs == 2

UserRoles == {"VIEWER", "INITIATOR", "APPROVER", "ADMIN"}

\* `${prefix}.${this.counter}.${timestamp}@test.com`: the three parts that
\* the dots separate
Email(prefix, counter, timestamp) == <<prefix, counter, timestamp, "@test.com">>

\* generateEmail(): this.counter++, then the email from Date.now()
generateEmail(self) ==
  LET c == self.counter + 1
  IN  [self  |-> [self EXCEPT !.counter = c],
       email |-> Email("testuser", c, self.ms)]

\* createUser({ role }): the request, appended to those generated so far
createUser(self, role) ==
  LET g == generateEmail(self)
  IN  [g.self EXCEPT !.emails = Append(@, [email |-> g.email, role |-> role])]

\* createUsers(count): Array.from({ length: count }, () => createUser())
RECURSIVE createUsers(_, _)
createUsers(self, count) ==
  IF count = 0 THEN self
  ELSE createUsers(createUser(self, "VIEWER"), count - 1)

\* resetCounter(): this.counter = 0
resetCounter(self) == [self EXCEPT !.counter = 0]

usersUnchanged ==
  UNCHANGED <<heap, multi, nextObj, nextInst, prev, last, bound, rebound, tpc, held,
              fixtureVars, setupVars, wait, util>>

Created(self) ==
  /\ Len(self.emails) <= MaxEmails
  /\ userFactory' = self
  /\ usersUnchanged

CreateUser == Created(createUser(userFactory, "VIEWER"))

CreateInitiator == Created(createUser(userFactory, "INITIATOR"))

CreateApprover == Created(createUser(userFactory, "APPROVER"))

CreateAdmin == Created(createUser(userFactory, "ADMIN"))

CreateUsers(count) == Created(createUsers(userFactory, count))

ResetCounter ==
  /\ userFactory.counter > 0
  /\ userFactory' = resetCounter(userFactory)
  /\ usersUnchanged

\* a millisecond passes
Millisecond ==
  /\ userFactory.ms < MaxMs
  /\ userFactory' = [userFactory EXCEPT !.ms = @ + 1]
  /\ usersUnchanged

InitUsers ==
  /\ heap = << >>
  /\ multi = NoMulti
  /\ nextObj = 1
  /\ nextInst = 1
  /\ prev = NoCall
  /\ last = NoCall
  /\ bound = {}
  /\ rebound = {}
  /\ tpc = << >>
  /\ held = << >>
  /\ NoFixtures

NextUsers ==
  \/ CreateUser
  \/ CreateInitiator
  \/ CreateApprover
  \/ CreateAdmin
  \/ \E count \in 2..MaxEmails : CreateUsers(count)
  \/ ResetCounter
  \/ Millisecond

SpecUsers == InitUsers /\ [][NextUsers]_vars

(***************************************************************************)
(* Utilities: CustomAssertions.assertAll and WaitHelpers.retryUntilSuccess. *)
(* The functions passed to them return a promise, as their type says; an    *)
(* attempt that fails rejects with an Error.                                *)
(***************************************************************************)
\* the most assertions passed to assertAll
MaxAssertions == 3

\* the largest maxRetries passed to retryUntilSuccess
MaxRetries == 3

\* what the promise of an assertion does: it resolves, or rejects with a reason
Reasons == {"expected visible", "expected enabled"}

AssertionOutcomes == {"resolves"} \cup Reasons

\* Promise.allSettled(assertions.map(fn => fn())): every function is called,
\* in order, and the results come in the order of the arguments
allSettled(assertions) ==
  [i \in 1..Len(assertions) |->
     IF assertions[i] = "resolves"
     THEN [status |-> "fulfilled", reason |-> ""]
     ELSE [status |-> "rejected", reason |-> assertions[i]]]

IsRejected(f) == f.result.status = "rejected"

\* `Assertion ${index + 1} failed: ${reason}`
FailureLine(f) == <<"Assertion", f.index + 1, "failed:", f.result.reason>>

\* assertAll with Promise.all: the first rejection is the error
assertAll_FailFast(assertions) ==
  LET results  == allSettled(assertions)
      indexed  == [i \in 1..Len(results) |-> [result |-> results[i], index |-> i - 1]]
      failures == SelectSeq(indexed, IsRejected)
  IN  [invoked |-> [i \in 1..Len(assertions) |-> i],
       threw   |-> Len(failures) > 0,
       message |-> IF Len(failures) > 0 THEN <<failures[1].result.reason>> ELSE << >>]

assertAll(assertions) ==
  LET results  == allSettled(assertions)
      indexed  == [i \in 1..Len(results) |-> [result |-> results[i], index |-> i - 1]]
      failures == SelectSeq(indexed, IsRejected)
  IN  [invoked |-> [i \in 1..Len(assertions) |-> i],
       threw   |-> Len(failures) > 0,
       message |-> IF Len(failures) > 0
                   THEN <<"Multiple assertions failed:">>
                        \o [k \in 1..Len(failures) |-> FailureLine(failures[k])]
                   ELSE << >>]

\* lastError before any attempt has failed, and the error thrown then
NoError == << >>

GenericError == <<"All retry attempts failed">>

\* the loop of retryUntilSuccess from i on; attempt n of the action resolves
\* with value n or rejects with error n, as outcomes[n] says
RECURSIVE retryFrom(_, _, _, _, _, _)
retryFrom(i, outcomes, maxRetries, delayMs, lastError, events) ==
  IF i < maxRetries
  THEN LET called == Append(events, <<"action", i + 1>>)
       IN  IF outcomes[i + 1] = "resolves"
           THEN [threw |-> FALSE, ret |-> <<"value", i + 1>>, error |-> NoError,
                 events |-> called]
           ELSE retryFrom(i + 1, outcomes, maxRetries, delayMs, <<"error", i + 1>>,
                          IF i < maxRetries - 1
                          THEN Append(called, <<"waitForTimeout", delayMs>>)
                          ELSE called)
  ELSE [threw |-> TRUE, ret |-> << >>,
        error |-> IF lastError # NoError THEN lastError ELSE GenericError,
        events |-> events]

\* retryUntilSuccess whose loop runs while i <= maxRetries
retryUntilSuccess_OneMore(outcomes, maxRetries, delayMs) ==
  retryFrom(0, outcomes, maxRetries + 1, delayMs, NoError, << >>)

retryUntilSuccess(outcomes, maxRetries, delayMs) ==
  retryFrom(0, outcomes, maxRetries, delayMs, NoError, << >>)

utilUnchanged ==
  UNCHANGED <<heap, multi, nextObj, nextInst, prev, last, bound, rebound, tpc, held,
              fixtureVars, setupVars, wait, userFactory>>

\* await assertions.assertAll(...assertions)
AssertAll(assertions) ==
  /\ util.op = "none"
  /\ LET r == assertAll(assertions)
     IN  util' = [op |-> "assertAll", assertions |-> assertions, invoked |-> r.invoked,
                  threw |-> r.threw, message |-> r.message]
  /\ utilUnchanged

\* await waits.retryUntilSuccess(action, maxRetries, delayMs)
RetryUntilSuccess(outcomes, maxRetries, delayMs) ==
  /\ util.op = "none"
  /\ LET r == retryUntilSuccess(outcomes, maxRetries, delayMs)
     IN  util' = [op |-> "retryUntilSuccess", outcomes |-> outcomes,
                  maxRetries |-> maxRetries, delayMs |-> delayMs,
                  threw |-> r.threw, ret |-> r.ret, error |-> r.error,
                  events |-> r.events]
  /\ utilUnchanged

\* the test goes on after the call
UtilReturned ==
  /\ util.op # "none"
  /\ util' = NoUtil
  /\ utilUnchanged

InitUtil ==
  /\ heap = << >>
  /\ multi = NoMulti
  /\ nextObj = 1
  /\ nextInst = 1
  /\ prev = NoCall
  /\ last = NoCall
  /\ bound = {}
  /\ rebound = {}
  /\ tpc = << >>
  /\ held = << >>
  /\ NoFixtures

NextUtil ==
  \/ \E n \in 0..MaxAssertions : \E assertions \in [1..n -> AssertionOutcomes] :
       AssertAll(assertions)
  \/ \E outcomes \in [1..MaxRetries + 1 -> {"resolves", "rejects"}],
        maxRetries \in 0..MaxRetries, delayMs \in {1, 2} :
       RetryUntilSuccess(outcomes, maxRetries, delayMs)
  \/ UtilReturned

SpecUtil == InitUtil /\ [][NextUtil]_vars

(***************************************************************************)
(* One AppRegistry used through every named accessor and through the       *)
(* generic gets of the same keys.                                          *)
(***************************************************************************)
InitAccessors ==
  /\ heap = (2 :> createAppRegistry(1))
  /\ multi = NoMulti
  /\ nextObj = 3
  /\ nextInst = 1
  /\ prev = NoCall
  /\ last = NoCall
  /\ bound = {}
  /\ rebound = {}
  /\ tpc = << >>
  /\ held = << >>
  /\ NoFixtures

NextAccessors ==
  \/ \E a \in DOMAIN heap : Home(a)
  \/ \E a \in DOMAIN heap : Shadow(a)
  \/ \E a \in DOMAIN heap : Waits(a)
  \/ \E a \in DOMAIN heap : Assertions(a)
  \/ \E a \in DOMAIN heap : Auth(a)
  \/ \E a \in DOMAIN heap : UserApi(a)
  \/ \E a \in DOMAIN heap, f \in {"f1", ThrowingFactory} : GetPage(a, "home", f)
  \/ \E a \in DOMAIN heap, k \in NamedServiceKeys, f \in {"f1", ThrowingFactory} :
       GetService(a, k, f)
  \/ \E a \in DOMAIN heap : ClearAll(a)
  \/ \E a \in DOMAIN heap : GetCacheStats(a)

SpecAccessors == InitAccessors /\ [][NextAccessors]_vars

(***************************************************************************)
(* Properties of the stored states.                                        *)
(***************************************************************************)
\* authenticateUser has run; the file it found was there and less than 12
\* hours old
HasRun == gs.run.role # ""
FoundFresh == gs.run.before.exists /\ gs.run.at - gs.run.before.mtime < FreshHours

\* C16: authenticateUser reuses the stored state, with no navigation, no
\* login, no write and the file left as it was, exactly when the file exists
\* and was modified less than 12 hours ago; otherwise it opens a fresh
\* context and goes to the base URL, runs the login exactly when the Login
\* button is visible, and then, the login not having rejected, writes the
\* stored state with the current time.
C16_ReuseWhenFresh ==
  HasRun =>
    /\ gs.run.reused <=> FoundFresh
    /\ gs.run.reused =>
         /\ gs.run.events = << >>
         /\ ~gs.run.wrote /\ ~gs.run.threw
         /\ files[gs.run.role] = gs.run.before
    /\ ~gs.run.reused =>
         /\ SubSeq(gs.run.events, 1, 3) = <<"newContext", "newPage", "goto baseUrl">>
         /\ "login" \in Range(gs.run.events) <=> gs.run.visible
         /\ gs.run.wrote <=> ~gs.run.threw
         /\ gs.run.wrote =>
              /\ "storageState" \in Range(gs.run.events)
              /\ files[gs.run.role] = [exists |-> TRUE, mtime |-> gs.run.at]

\* a stored state exactly 12 hours old was not reused: the login ran and the
\* file was written anew
C16_Witness ==
  /\ HasRun
  /\ gs.run.before.exists
  /\ gs.run.at - gs.run.before.mtime = FreshHours
  /\ ~gs.run.reused /\ gs.run.wrote
  /\ "login" \in Range(gs.run.events)

\* C17: a browser context is seeded from the stored state only if the file
\* is less than 12 hours old at the moment the context is opened; no session
\* runs on a stored state that is 12 hours old or older.
C17_SeedIsFresh ==
  \A c \in DOMAIN ctxs : ctxs[c].seedAge < FreshHours

\* C18: if the SSO login rejects during authenticateUser, authenticateUser
\* rejects with that error, globalSetup with it, and the stored state of
\* that user is neither written nor modified.
C18_NoWriteOnReject ==
  (HasRun /\ gs.run.threw) =>
    /\ gs.status = "failed"
    /\ gs.run.error # ""
    /\ "login" \in Range(gs.run.events)
    /\ ~gs.run.wrote
    /\ "storageState" \notin Range(gs.run.events)
    /\ files[gs.run.role] = gs.run.before

\* the login found no email input on a stale stored state: authenticateUser
\* rejected with that error and the stale file is still there
C18_Witness ==
  /\ HasRun
  /\ gs.run.threw
  /\ gs.run.error = "Could not find email input field"
  /\ gs.run.before.exists
  /\ files[gs.run.role] = gs.run.before
(***************************************************************************)
(* Properties of the waits.                                                *)
(***************************************************************************)
\* C19: every wait fails with an error when its timeout elapses: a wait
\* whose network-idle wait timed out has rejected to its caller.
C19_Original ==
  "idle" \in wait.timedOut => wait.threw

\* C19, as the code has it: the network-idle waits are best effort.
\* WaitHelpers.waitForNetworkIdle, BasePage.waitForNetworkIdle and
\* BaseFragment.waitForNetworkIdle never reject and return no later than
\* their timeout (plus the idle time) allows; waitForPageLoad rejects
\* exactly when domcontentloaded is not reached in time, and resolves when
\* only the network stays busy.
C19_IdleWaitsAreBestEffort ==
  /\ wait.op \in IdleWaits =>
       /\ ~wait.threw
       /\ wait.at <= wait.from + wait.timeout + 1
       /\ "idle" \in wait.timedOut <=> wait.load.idle > wait.from + wait.timeout
  /\ wait.op = "BasePage.waitForPageLoad" =>
       /\ wait.threw <=> "dom" \in wait.timedOut
       /\ wait.threw <=> wait.load.dom > wait.from + wait.timeout
       /\ wait.at <= wait.from + wait.timeout + PageLoadIdle

\* the network was still busy when the timeout elapsed and the wait of
\* WaitHelpers resolved
C19_Witness ==
  /\ wait.op = "WaitHelpers.waitForNetworkIdle"
  /\ "idle" \in wait.timedOut
  /\ wait.load.idle = Never
  /\ ~wait.threw
(***************************************************************************)
(* Properties of the teardown.                                             *)
(***************************************************************************)
\* both caches of a registry are empty
Cleared(r) == r.pages.cache = << >> /\ r.services.cache = << >>

\* the registries built over page p, those of the combined registry included
RegistriesOn(p) == {a \in DOMAIN heap : heap[a].page = p}

\* while a fixture is being set up or the body runs no page is closed, so
\* every registry handed to the body is over an open page; and a closed page
\* has no registry with anything cached
UsableOnlyWhileOpen ==
  /\ phase \in {"setup", "body"} =>
       /\ browser # "closed"
       /\ \A p \in DOMAIN tabs : ~tabs[p].closed
       /\ \A c \in DOMAIN ctxs : ~ctxs[c].closed
  /\ \A p \in DOMAIN tabs :
       tabs[p].closed => \A a \in RegistriesOn(p) : Cleared(heap[a])

\* a page is closed after the registries over it were cleared, a context
\* after the pages handed to the test in it were closed, the browser after
\* every context was closed
ClosedInOrder ==
  /\ \A p \in DOMAIN tabs :
       (~tabs[p].closed /\ tabs'[p].closed) =>
         \A a \in RegistriesOn(p) : Cleared(heap[a])
  /\ \A c \in DOMAIN ctxs :
       (~ctxs[c].closed /\ ctxs'[c].closed) =>
         \A p \in HandedPages : tabs[p].context = c => tabs[p].closed
  /\ (browser = "open" /\ browser' = "closed") =>
       \A c \in DOMAIN ctxs : ctxs[c].closed

\* C20: at the end of a test the caches of each role's registry are cleared
\* before that role's page is closed, the page is closed before its context
\* and every context before the shared browser; no registry, of a role or
\* combined, is handed to a body or left with the body after its page was
\* closed.
C20_TeardownOrder == []UsableOnlyWhileOpen /\ [][ClosedInOrder]_vars

\* the test has ended with everything closed, and the clearAll of the
\* teardown found a registry the body had filled, over a page that was
\* handed to the test
C20_Witness ==
  /\ phase = "end"
  /\ browser = "closed"
  /\ last.op = "clearAll" /\ last.hit
  /\ heap[last.target].page \in HandedPages
  /\ tabs[heap[last.target].page].closed
  /\ Cleared(heap[last.target])
(***************************************************************************)
(* Properties of the clears and of the statistics.                         *)
(***************************************************************************)
ClearOps == {"clearAll", "pages.clearCache", "services.clearCache"}

\* the step is a clear of one registry, by the body or by the teardown of
\* the fixture of that registry
ClearStep ==
  /\ last'.op \in ClearOps
  /\ \/ phase = "body" /\ phase' = "body"
     \/ \E role \in Roles : TearingDown(UserFixture("Registry", role))

\* what a clear of registry a changes and what it leaves alone
ClearsOnly(a) ==
  /\ last'.op \in {"clearAll", "pages.clearCache"} => heap'[a].pages.cache = << >>
  /\ last'.op \in {"clearAll", "services.clearCache"} => heap'[a].services.cache = << >>
  /\ last'.op = "pages.clearCache" => heap'[a].services = heap[a].services
  /\ last'.op = "services.clearCache" => heap'[a].pages = heap[a].pages
  /\ AppRegistry_getPage(heap'[a]) = AppRegistry_getPage(heap[a])
  /\ heap'[a].pages.page = heap[a].pages.page
  /\ heap'[a].services.page = heap[a].services.page
  /\ \A b \in DOMAIN heap \ {a} : heap'[b] = heap[b]
  /\ DOMAIN heap' = DOMAIN heap
  /\ UNCHANGED <<tabs, ctxs, browser, multi, nextInst>>

\* C21: clearCache and clearAll only empty the cache maps of the registry
\* they are called on: getPage() returns the same page before and after, no
\* page, context or browser changes (nothing is navigated, closed or logged
\* out), no factory is invoked and the caches of every other registry are
\* as they were.
C21_ClearIsBookkeeping ==
  [][ClearStep => ClearsOnly(last'.target)]_vars

\* the body cleared a filled registry while another registry had something
\* cached, over a page that is open and logged in
C21_Witness ==
  /\ phase = "body"
  /\ last.op = "clearAll" /\ last.hit
  /\ ~tabs[heap[last.target].page].closed
  /\ tabs[heap[last.target].page].login = "done"
  /\ \E b \in DOMAIN heap \ {last.target} :
       AppRegistry_getCacheStats(heap[b]).total > 0
\* the keys of namespace ns of registry a that a get, a getter or a set has
\* filled since the namespace was last cleared
FilledSinceClear(a, ns, keys) == {k \in keys : IsBound(rebound, a, ns, k)}

\* a list holds each key of a set once and nothing else
Lists(list, keys) == Range(list) = keys /\ Len(list) = Cardinality(keys)

\* the statistics the last call returned are those of its registry as the
\* calls before it left it
StatsAreCurrent ==
  last.op = "getCacheStats" =>
    LET a == last.target
        s == last.ret
    IN  /\ Lists(s.pages, KeySet(heap[a].pages.cache))
        /\ Lists(s.services, KeySet(heap[a].services.cache))
        /\ Lists(s.pages, FilledSinceClear(a, "pages", PageKeys))
        /\ Lists(s.services, FilledSinceClear(a, "services", ServiceKeys))
        /\ s.total = Cardinality(KeySet(heap[a].pages.cache))
                     + Cardinality(KeySet(heap[a].services.cache))
        /\ \A k \in PageKeys :
             k \in Range(s.pages) <=> PageRegistry_isCached(heap[a].pages, k)
        /\ \A k \in ServiceKeys :
             k \in Range(s.services) <=> ServiceRegistry_isCached(heap[a].services, k)

\* getCacheStats changes nothing but the record of the last call
StatsReadOnly ==
  last'.op = "getCacheStats" => UNCHANGED <<heap, nextInst, bound, rebound>>

\* C22: getCacheStats() never changes any cache; its pages and services
\* lists are exactly the keys present in the two namespaces, total is the
\* number of page keys plus the number of service keys, and the call
\* reflects every get, set and clear completed before it: a key is listed
\* if and only if isCached reports it.
C22_StatsAreExact == []StatsAreCurrent /\ [][StatsReadOnly]_vars

\* statistics taken with keys in both namespaces, two of them services
C22_Witness ==
  /\ last.op = "getCacheStats"
  /\ last.ret.pages # << >>
  /\ Len(last.ret.services) = 2
  /\ last.ret.total = Len(last.ret.pages) + 2
\* the step is a get or getter call on the registry that clearAll() has just
\* cleared
AccessAfterClearAll ==
  /\ last.op = "clearAll"
  /\ last'.op \in LookupOps
  /\ last'.target = last.target

\* the call of the step invoked a factory, which returned an instance that
\* did not exist before, and the statistics count it
Refilled ==
  /\ last'.invoked # << >>
  /\ ~last'.hit
  /\ ~last'.threw
  /\ last'.ret >= nextInst
  /\ nextInst' > nextInst
  /\ AppRegistry_getCacheStats(heap'[last'.target]).total > 0

\* every instance a cache holds was created before now, so that an instance
\* numbered nextInst or higher is none of them
CachedAreOld ==
  \A a \in DOMAIN heap, ns \in Namespaces :
    \A e \in Range(heap[a][ns].cache) : e.val < nextInst

\* C23 as stated: after clearAll() the next access of a key invokes the
\* factory again, yields a new instance and makes total greater than 0;
\* entries never reappear after a clear without such an access.
C23_Original ==
  [][/\ AccessAfterClearAll => Refilled
     /\ \A a \in DOMAIN heap, ns \in Namespaces :
          \A k \in Appeared(a, ns) : FilledByFactory(a, ns, k)]_vars

\* the step is a get or getter call for a key that nothing has put into its
\* namespace since the namespace was last cleared
AccessOfUnfilled ==
  /\ last'.op \in LookupOps
  /\ ~IsBound(rebound, last'.target, last'.ns, last'.key)

\* C23, amended: a get or getter call for a key that was not filled since
\* the last clear invokes the factory again; right after clearAll(), when the
\* factory returns, the call yields a new instance and total is greater than
\* 0 again, and when the factory throws the registry stays empty.  Entries
\* reappear after a clear only through such a call or through setService.
C23_RefillAfterClear ==
  /\ []CachedAreOld
  /\ [][/\ AccessOfUnfilled => (last'.invoked # << >> /\ ~last'.hit)
        /\ (AccessAfterClearAll /\ ~last'.threw) => Refilled
        /\ (AccessAfterClearAll /\ last'.threw) =>
             /\ last'.invoked # << >>
             /\ AppRegistry_getCacheStats(heap'[last'.target]).total = 0
        /\ \A a \in DOMAIN heap, ns \in Namespaces :
             \A k \in Appeared(a, ns) :
               FilledByFactory(a, ns, k) \/ SetManually(a, ns, k)]_vars

\* instance 1 was cached and a clear removed it; pages.home, read after the
\* clear, built instance 2, the only entry there is now
C23_Witness ==
  /\ last.op = "home"
  /\ ~last.hit
  /\ last.invoked = <<"HomePage">>
  /\ last.ret = 2
  /\ AppRegistry_getCacheStats(heap[last.target]).total = 1
(***************************************************************************)
(* Properties of UserFactory.                                              *)
(***************************************************************************)
\* C24: under any sequence of createUser, createUsers, createInitiator,
\* createApprover, createAdmin (with no email override) and resetCounter in
\* one process, no two generated emails are equal.
C24_EmailsUnique ==
  \A i, j \in DOMAIN userFactory.emails :
    i # j => userFactory.emails[i].email # userFactory.emails[j].email
(***************************************************************************)
(* Properties of the utilities.                                            *)
(***************************************************************************)
\* the positions, counted from 1, of the assertions that rejected
FailedPositions == {i \in DOMAIN util.assertions : util.assertions[i] # "resolves"}

\* the lines of the message after its heading
FailureLines == Tail(util.message)

\* C25: assertAll runs every supplied assertion, none skipped and none
\* twice, resolves if and only if all of them resolve, and otherwise rejects
\* with one error whose message names every failed assertion, and only
\* those, by its position counted from 1, in the order of the arguments and
\* with its reason.
C25_AssertAllReportsAll ==
  util.op = "assertAll" =>
    /\ util.invoked = [i \in 1..Len(util.assertions) |-> i]
    /\ util.threw <=> FailedPositions # {}
    /\ ~util.threw => util.message = << >>
    /\ util.threw =>
         /\ Head(util.message) = "Multiple assertions failed:"
         /\ {line[2] : line \in Range(FailureLines)} = FailedPositions
         /\ Len(FailureLines) = Cardinality(FailedPositions)
         /\ \A k \in DOMAIN FailureLines :
              /\ FailureLines[k][4] = util.assertions[FailureLines[k][2]]
              /\ k > 1 => FailureLines[k - 1][2] < FailureLines[k][2]

\* the first and the third of three assertions rejected, the second
\* resolved: the message names positions 1 and 3
C25_Witness ==
  /\ util.op = "assertAll"
  /\ Len(util.assertions) = 3
  /\ util.assertions[2] = "resolves"
  /\ util.threw
  /\ Len(util.message) = 3
  /\ util.message[2][2] = 1
  /\ util.message[3][2] = 3
\* how often retryUntilSuccess invoked the action
Attempts == Cardinality({k \in DOMAIN util.events : util.events[k][1] = "action"})

\* the attempts that retryUntilSuccess may make and that resolve
Successes == {n \in 1..util.maxRetries : util.outcomes[n] = "resolves"}

\* C28: retryUntilSuccess terminates after at most maxRetries invocations of
\* the action; it returns the value of the first attempt that resolves and
\* makes no attempt after it; it waits delayMs between two consecutive
\* attempts and not after the last one; when every attempt fails it rejects
\* with the error of the last attempt, and with a generic error when no
\* attempt was made.
C28_RetryIsBounded ==
  util.op = "retryUntilSuccess" =>
    /\ Attempts <= util.maxRetries
    /\ Len(util.events) = IF Attempts = 0 THEN 0 ELSE 2 * Attempts - 1
    /\ \A k \in DOMAIN util.events :
         util.events[k] = IF k % 2 = 1 THEN <<"action", (k + 1) \div 2>>
                          ELSE <<"waitForTimeout", util.delayMs>>
    /\ util.threw <=> Successes = {}
    /\ ~util.threw =>
         /\ Attempts \in Successes
         /\ \A n \in Successes : Attempts <= n
         /\ util.ret = <<"value", Attempts>>
    /\ util.threw =>
         /\ Attempts = util.maxRetries
         /\ util.error = IF Attempts > 0 THEN <<"error", Attempts>> ELSE GenericError

\* two attempts failed and the third, the last one allowed, resolved: two
\* waits, and the value of the third attempt
C28_Witness ==
  /\ util.op = "retryUntilSuccess"
  /\ util.maxRetries = 3
  /\ ~util.threw
  /\ util.ret = <<"value", 3>>
  /\ Len(util.events) = 5
  /\ util.events[4] = <<"waitForTimeout", util.delayMs>>
(***************************************************************************)
(* Properties of the steps of the login.                                   *)
(***************************************************************************)
\* where action e occurs among the actions performed on a page
Indices(events, e) == {i \in DOMAIN events : events[i] = e}

\* every a was performed before every b
Before(events, a, b) ==
  \A i \in Indices(events, a), j \in Indices(events, b) : i < j

\* b was performed only after an a
Follows(events, a, b) ==
  \A j \in Indices(events, b) : \E i \in Indices(events, a) : i < j

StayClicks == {"click Yes", "click No"}

\* C26: login performs its steps in the order: wait for the login page,
\* enter the email and click Next, enter the password and click Sign in,
\* handle the "Stay signed in?" prompt, wait until the page has left the
\* identity provider; a step starts only after the one before it completed,
\* the password is never entered before the email was submitted, and login
\* resolves only after the page has left the identity provider.
C26_StepsInOrder ==
  \A p \in DOMAIN tabs :
    LET events == tabs[p].events
    IN  "login" \in Range(events) =>
          /\ "fill email" \in Range(events) => tabs[p].idp.loginPage
          /\ Before(events, "login", "fill email")
          /\ Before(events, "fill email", "click Next")
          /\ Follows(events, "click Next", "fill password")
          /\ Before(events, "click Next", "fill password")
          /\ Before(events, "fill password", "click Sign in")
          /\ \A c \in StayClicks :
               /\ Follows(events, "click Sign in", c)
               /\ Before(events, "click Sign in", c)
               /\ Before(events, c, "left identity provider")
          /\ Follows(events, "click Sign in", "left identity provider")
          /\ Indices(events, "left identity provider") \subseteq {Len(events)}
          /\ tabs[p].login = "done" <=> "left identity provider" \in Range(events)
          /\ tabs[p].login = "done" => tabs[p].idp.leftIdp

\* a login that went through every step, the prompt included
C26_Witness ==
  \E p \in DOMAIN tabs :
    /\ tabs[p].login = "done"
    /\ tabs[p].events = <<"goto baseUrl", "click Login", "login", "fill email",
                          "click Next", "fill password", "click Sign in",
                          "click No", "left identity provider">>

\* how often action e was performed
Times(events, e) == Cardinality(Indices(events, e))

\* C27: within one login the email is filled into at most one input and
\* Next is clicked at most once; when an email input was found and filled
\* but no Next button can be clicked, login rejects with the error that
\* names the missing Next button.
C27_ErrorNamesNext ==
  \A p \in DOMAIN tabs :
    LET events == tabs[p].events
    IN  "login" \in Range(events) =>
          /\ Times(events, "fill email") <= 1
          /\ Times(events, "click Next") <= 1
          /\ ("fill email" \in Range(events) /\ "click Next" \notin Range(events)) =>
               tabs[p].error = "Could not find \"Next\" button"
(***************************************************************************)
(* Properties of the named accessors.                                      *)
(***************************************************************************)
\* the named accessors; each is called by the key it caches under
NamedOps == {"home"} \cup NamedServiceKeys

\* the generic get of the namespace of a named accessor, with the
\* accessor's key and a factory that builds a new object, on registry a
GenericGet(a, op) ==
  IF op = "home"
  THEN PageRegistry_getPage(heap[a].pages, "home", "f1", nextInst)
  ELSE ServiceRegistry_getService(heap[a].services, op, "f1", nextInst)

\* the step is a call of a named accessor and does what the generic get
\* would have done: the same cache afterwards, the same instance returned,
\* a constructor invoked exactly when the generic get invokes its factory
AccessorIsGenericGet ==
  last'.op \in NamedOps =>
    LET a == last'.target
        g == GenericGet(a, last'.op)
    IN  /\ heap'[a][last'.ns] = g.self
        /\ last'.ret = g.ret
        /\ last'.hit = g.hit
        /\ Len(last'.invoked) = Len(g.invoked)
        /\ nextInst' = g.n
        /\ last'.key = last'.op

\* the step is a generic get of the key that a named accessor has just
\* read: it returns the accessor's instance and calls no factory
GenericGetAfterAccessor ==
  (/\ last.op \in NamedOps
   /\ last'.op \in GenericGets
   /\ last'.target = last.target /\ last'.ns = last.ns /\ last'.key = last.key) =>
    /\ last'.hit
    /\ last'.invoked = << >>
    /\ ~last'.threw
    /\ last'.ret = last.ret

\* a lookup, named or generic, returns the instance that the first lookup
\* of its key returned since the last clear, and statistics list the key
OneEntryPerKey ==
  (last.op \in LookupOps /\ ~last.threw) =>
    /\ last.ret = BoundTo(bound, last.target, last.ns, last.key)
    /\ last.ret = MapGet(heap[last.target][last.ns].cache, last.key)
    /\ last.key \in Range(AppRegistry_getCacheStats(heap[last.target])[last.ns])

\* C29: each named accessor (pages.home, services.shadow, waits,
\* assertions, auth, userApi) behaves like the generic get with its key and
\* a fixed factory: it shares the cache entry of that key, so that after the
\* accessor was used getPage/getService with the same key returns the
\* accessor's instance without calling the supplied factory, repeated reads
\* of the accessor return the identical instance, and the key appears in
\* getCacheStats.
C29_AccessorIsSugar ==
  /\ []OneEntryPerKey
  /\ [][AccessorIsGenericGet /\ GenericGetAfterAccessor]_vars

\* getService('waits', factory) with a factory that would throw returned
\* the cached instance, the only one there is
C29_Witness ==
  /\ last.op = "getService" /\ last.key = "waits"
  /\ last.factory = ThrowingFactory
  /\ last.hit /\ ~last.threw
  /\ last.ret = 1
  /\ nextInst = 2
  /\ AppRegistry_getCacheStats(heap[last.target]).services = <<"waits">>
(***************************************************************************)
(* Properties of a test with the combined registry and a role's registry.  *)
(***************************************************************************)
\* the test was handed both `registry` and `user1`
BothHanded == multi # NoMulti /\ fx[UserFixture("Alias", "user1")] # Undefined

\* user1 and user1Registry are one object; registry.user1 is another one,
\* over the same page
TwoRegistriesOnePage ==
  BothHanded =>
    /\ fx[UserFixture("Alias", "user1")] = fx[UserFixture("Registry", "user1")]
    /\ multi.user1 # fx[UserFixture("Registry", "user1")]
    /\ fx[UserFixture("Registry", "user1")] \notin Members(multi)
    /\ heap[multi.user1].page = fx[UserFixture("Page", "user1")]
    /\ heap[fx[UserFixture("Registry", "user1")]].page = fx[UserFixture("Page", "user1")]

\* a step changes the caches, and so the statistics, of a registry only when
\* it is a call on that registry or a clearAll() of the combined registry
\* that has it as a member; the teardown of the combined registry is such a
\* clearAll()
OwnCachesOnly ==
  /\ \A a \in DOMAIN heap :
       heap'[a] # heap[a] =>
         \/ last'.target = a
         \/ last'.op = "multi.clearAll" /\ a \in Members(multi)
  /\ \A a \in DOMAIN heap :
       AppRegistry_getCacheStats(heap'[a]) # AppRegistry_getCacheStats(heap[a]) =>
         \/ last'.target = a
         \/ last'.op = "multi.clearAll" /\ a \in Members(multi)
  /\ TearingDown(CombinedFixture) =>
       \A a \in DOMAIN heap \ Members(multi) : heap'[a] = heap[a]

\* C30: in a test that requests both `registry` and `user1`, user1 and
\* user1Registry are the same AppRegistry object, registry.user1 is a
\* different AppRegistry over the same page with its own caches: filling or
\* clearing one of the two never changes the getCacheStats of the other, and
\* tearing down the combined registry clears only its own members.
C30_SeparateCaches == []TwoRegistriesOnePage /\ [][OwnCachesOnly]_vars

\* the teardown of the combined registry has cleared its filled members
\* while user1, not yet torn down, still has what the body cached in it
C30_Witness ==
  /\ BothHanded
  /\ phase = "teardown"
  /\ last.op = "multi.clearAll" /\ last.hit
  /\ UserFixture("Registry", "user1") \in Range(stack)
  /\ CombinedFixture \notin Range(stack)
  /\ AppRegistry_getCacheStats(heap[fx[UserFixture("Alias", "user1")]]).total > 0
  /\ AppRegistry_getCacheStats(heap[multi.user1]).total = 0
====
